---------------------------- MODULE Spec2Model ----------------------------
(***************************************************************************)
(* The conversation UI of ucf_desktop (src/unnamed/part_003, the renderer  *)
(* with per-conversation state) as a state machine, driven by user clicks  *)
(* and by the events of the Python backend.  The backend itself            *)
(* (agent.py) is not part of the sources: its session manager and turn     *)
(* engine (sections 4.3, 4.4, 6) and its tool dispatcher and confirmation  *)
(* gate (sections 4.1, 4.2) are modelled from the specification, the       *)
(* stderr bridge from src/unnamed/part_002.                                *)
(***************************************************************************)
EXTENDS Integers, Sequences, FiniteSets, TLC

\* ---------------------------------------------------------------- bounds
\* Conversation ids (opaque strings in the program).
Convs == {"A", "B", "C"}
Null == "null"
\* Skills offered in the sidebar.
Skills == {"rag"}
\* Most child elements one conversation view holds in the model.
MaxChildren == 2
\* Most commands in flight on the renderer -> backend pipe.
MaxPipe == 1

VARIABLES
  conversations,  \* part_003:2   Map convId -> ConversationState
  globalState,    \* part_003:19  isConnected, isBusy, disabledSkills, backendConvId, activeConvId, pendingSwitchId
  inputEl,        \* part_003:40  the input box: disabled, placeholder (sendBtn.disabled always equals inputEl.disabled)
  convList,       \* part_003:51  ids of the items rendered in the sidebar
  skillRows,      \* part_003:676 rendered skill rows: name -> the isDisabled its click handler captured, the row's skill-disabled class
  pipe,           \* commands written to the backend's stdin and not yet handled
  backend,        \* the backend: session manager and turn engine
  dispatch,       \* the backend: tool dispatcher and confirmation gate
  engine,         \* the backend: one conversation's turn engine and context compactor
  wire,           \* calls on window.agent, each with what every transport makes of it
  view,           \* part_003: the backend conversation's message view, element by element
  stream,         \* the backend: the events of one turn, as far as emitted
  bridge,         \* part_002:64 the subprocess, its unread stdout and stderr, what the renderer was sent
  app,            \* part_002:8  the main process: mainWindow, pythonProcess, the listeners of send-to-python
  socket          \* web-agent.js:14 ws, reconnectTimer and every WebSocket ever created

vars == <<conversations, globalState, inputEl, convList, skillRows, pipe, backend, dispatch, engine, wire,
          view, stream, bridge, app, socket>>
uiVars == <<conversations, globalState, inputEl, convList, skillRows, pipe, backend>>
auxVars == <<wire, view, stream, bridge, app, socket>>

\* ------------------------------------------------------- renderer state

\* createConversationState: an empty, detached view.
createConversationState == [children |-> 0, currentAssistantEl |-> FALSE, display |-> "none"]

\* The renderer's state as one value, so that handlers compose as in the code.
\* A handler also yields what it did: sent, the commands it passed to
\* window.agent, in order, and shown, what it rendered, as [kind, conv].
UI == [conversations |-> conversations, globalState |-> globalState, inputEl |-> inputEl,
       convList |-> convList, skillRows |-> skillRows, sent |-> <<>>, shown |-> {}]

getBackendConv(s) == IF s.globalState.backendConvId \in DOMAIN s.conversations
                     THEN s.globalState.backendConvId ELSE Null

\* el.innerHTML of a conversation view: "" for a missing or empty view, otherwise
\* content that belongs to that conversation.
EmptyHtml == [conv |-> Null, children |-> 0]
innerHTML(s, id) ==
  IF id \in DOMAIN s.conversations /\ s.conversations[id].children > 0
  THEN [conv |-> id, children |-> s.conversations[id].children]
  ELSE EmptyHtml

\* An ensureConversation that builds a visible view whatever the map holds.
ensureConversation_replacesAndShows(s, convId) ==
  [s EXCEPT !.conversations =
     [id \in DOMAIN @ \cup {convId} |->
        IF id = convId THEN [createConversationState EXCEPT !.display = "block"] ELSE @[id]]]

ensureConversation(s, convId) ==
  IF convId \notin DOMAIN s.conversations
  THEN [s EXCEPT !.conversations = @ @@ (convId :> createConversationState)]
  ELSE s

showConversation(s, convId) ==
  [s EXCEPT !.conversations = [id \in DOMAIN @ |->
                                 [@[id] EXCEPT !.display = IF id = convId THEN "block" ELSE "none"]],
            !.globalState.activeConvId = convId]

enableInput(s) == [s EXCEPT !.inputEl = [disabled |-> FALSE, placeholder |-> "default"]]

disableInputWithMessage(s, msg) == [s EXCEPT !.inputEl = [disabled |-> TRUE, placeholder |-> msg]]

setBusy(s, busy) ==
  [s EXCEPT !.globalState.isBusy = busy,
            !.inputEl.disabled = busy,
            !.inputEl.placeholder =
               IF ~busy /\ s.globalState.activeConvId = s.globalState.backendConvId
               THEN "default" ELSE @]

\* window.agent.sendCommand / sendMessage: hand one message to the transport.
Cmd(name, id, html) == [name |-> name, id |-> id, ui_html |-> html]
sendCommand(s, cmd) == [s EXCEPT !.sent = Append(@, cmd)]

\* switchConversation with the busy branch forgotten to be visual-only: the
\* click queues the target and tells the backend to switch at once.
switchConversation_busySends(s, convId) ==
  IF convId = s.globalState.activeConvId /\ convId = s.globalState.backendConvId
  THEN s
  ELSE LET s1 == showConversation(s, convId) IN
       IF s.globalState.isBusy /\ convId = s1.globalState.backendConvId
       THEN disableInputWithMessage([s1 EXCEPT !.globalState.pendingSwitchId = Null], "processing")
       ELSE IF s.globalState.isBusy
       THEN sendCommand(disableInputWithMessage([s1 EXCEPT !.globalState.pendingSwitchId = convId], "afterDone"),
                        Cmd("switch_conversation", convId, innerHTML(s1, s1.globalState.backendConvId)))
       ELSE [sendCommand(s1, Cmd("switch_conversation", convId, innerHTML(s1, s1.globalState.backendConvId)))
               EXCEPT !.globalState.backendConvId = convId]

\* switchConversation whose busy branch leaves the queued target in place
\* when the click is on the conversation being processed.
switchConversation_keepsQueue(s, convId) ==
  IF convId = s.globalState.activeConvId /\ convId = s.globalState.backendConvId
  THEN s
  ELSE IF s.globalState.isBusy
  THEN LET s1 == showConversation(s, convId) IN
       IF convId = s1.globalState.backendConvId
       THEN disableInputWithMessage(s1, "processing")
       ELSE disableInputWithMessage([s1 EXCEPT !.globalState.pendingSwitchId = convId], "afterDone")
  ELSE LET s1 == showConversation(s, convId)
           currentHtml == innerHTML(s1, s1.globalState.backendConvId)
           s2 == sendCommand(s1, Cmd("switch_conversation", convId, currentHtml))
       IN [s2 EXCEPT !.globalState.backendConvId = convId]

switchConversation(s, convId) ==
  IF convId = s.globalState.activeConvId /\ convId = s.globalState.backendConvId
  THEN s
  ELSE IF s.globalState.isBusy
  THEN LET s1 == showConversation(s, convId) IN
       IF convId = s1.globalState.backendConvId
       THEN disableInputWithMessage([s1 EXCEPT !.globalState.pendingSwitchId = Null], "processing")
       ELSE disableInputWithMessage([s1 EXCEPT !.globalState.pendingSwitchId = convId], "afterDone")
  ELSE LET s1 == showConversation(s, convId)
           currentHtml == innerHTML(s1, s1.globalState.backendConvId)
           s2 == sendCommand(s1, Cmd("switch_conversation", convId, currentHtml))
       IN [s2 EXCEPT !.globalState.backendConvId = convId]

\* Append one element of the given kind to the backend conversation's view.
appendChild(s, kind) ==
  LET c == getBackendConv(s) IN
  IF c = Null THEN s
  ELSE [s EXCEPT !.conversations[c].children = @ + 1,
                 !.shown = @ \cup {[kind |-> kind, conv |-> c]}]

appendUserMessage(s) == appendChild(s, "user")

startAssistantMessage(s) ==
  LET c == getBackendConv(s) IN
  IF c = Null THEN s
  ELSE [appendChild(s, "assistant") EXCEPT !.conversations[c].currentAssistantEl = TRUE]

appendToken(s) ==
  LET c == getBackendConv(s) IN
  IF c = Null THEN s
  ELSE LET s1 == IF ~s.conversations[c].currentAssistantEl THEN startAssistantMessage(s) ELSE s
       IN [s1 EXCEPT !.shown = @ \cup {[kind |-> "token", conv |-> c]}]

finalizeAssistantMessage(s) ==
  LET c == getBackendConv(s) IN
  IF c = Null \/ ~s.conversations[c].currentAssistantEl THEN s
  ELSE [s EXCEPT !.conversations[c].currentAssistantEl = FALSE]

\* A status line; the model renders only the lasting ones (ephemeral lines are
\* removed again by the next event and leave no trace in the view).
appendStatusMessage(s) == appendChild(s, "status")

appendErrorMessage(s) == appendChild(s, "error")

renderConversationList(s, convs) == [s EXCEPT !.convList = convs]

\* renderSkillsList: each row's click handler captures isDisabled as of rendering.
renderSkillsList(s, skills) ==
  [s EXCEPT !.skillRows = [n \in skills |->
       [isDisabled |-> n \in s.globalState.disabledSkills,
        skillDisabledClass |-> n \in s.globalState.disabledSkills]]]

\* updateSkillToggleUI: the row's class, checkbox and title; the click handler
\* of the row's button is the one installed at rendering.
updateSkillToggleUI(s, skillName, enabled) ==
  IF skillName \notin DOMAIN s.skillRows THEN s
  ELSE [s EXCEPT !.skillRows[skillName].skillDisabledClass = ~enabled]

\* ------------------------------------------------ onMessage, case by case

on_system_info(s, msg) ==
  LET s1 == [s EXCEPT !.globalState.isConnected = TRUE,
                      !.globalState.disabledSkills = msg.disabled_skills]
      s2 == IF msg.conversation_id # Null
            THEN LET a == showConversation(ensureConversation(s1, msg.conversation_id), msg.conversation_id)
                 IN [a EXCEPT !.globalState.backendConvId = msg.conversation_id,
                              !.globalState.activeConvId = msg.conversation_id]
            ELSE s1
      s3 == enableInput(renderConversationList(s2, msg.conversations))
  IN IF msg.skills # {} THEN renderSkillsList(s3, msg.skills) ELSE s3

on_token(s) == appendToken(s)

on_assistant_done(s) == setBusy(finalizeAssistantMessage(s), FALSE)

on_chat_finished(s) ==
  LET s1 == finalizeAssistantMessage(s)
      s2 == IF s1.globalState.isBusy THEN setBusy(s1, FALSE) ELSE s1
      finishedConv == getBackendConv(s2)
      s3 == IF finishedConv # Null
            THEN sendCommand(s2, Cmd("save_conversation_html", Null, innerHTML(s2, finishedConv)))
            ELSE s2
      s4 == IF s3.globalState.pendingSwitchId # Null
            THEN switchConversation([s3 EXCEPT !.globalState.pendingSwitchId = Null],
                                    s3.globalState.pendingSwitchId)
            ELSE s3
  IN sendCommand(s4, Cmd("list_conversations", Null, EmptyHtml))

on_error(s) == setBusy(appendErrorMessage(finalizeAssistantMessage(s)), FALSE)

on_conversation_new(s, id) ==
  LET s1 == showConversation(ensureConversation(s, id), id)
  IN enableInput([s1 EXCEPT !.globalState.backendConvId = id,
                            !.globalState.pendingSwitchId = Null])

\* A handler that restores the snapshot whatever the view holds.
on_conversation_switched_overwrites(s, id, ui_html) ==
  LET s1 == ensureConversation(s, id)
      s2 == IF ui_html > 0
            THEN [s1 EXCEPT !.conversations[id].children = ui_html]
            ELSE s1
      s3 == showConversation(s2, id)
  IN enableInput([s3 EXCEPT !.globalState.backendConvId = id,
                            !.globalState.pendingSwitchId = Null])

\* ui_html: the number of children of the stored snapshot (0: none stored).
on_conversation_switched(s, id, ui_html) ==
  LET s1 == ensureConversation(s, id)
      s2 == IF ui_html > 0 /\ s1.conversations[id].children = 0
            THEN [s1 EXCEPT !.conversations[id].children = ui_html]
            ELSE s1
      s3 == showConversation(s2, id)
  IN enableInput([s3 EXCEPT !.globalState.backendConvId = id,
                            !.globalState.pendingSwitchId = Null])

on_conversations_list(s, convs) == renderConversationList(s, convs)

on_conversation_deleted(s, id) ==
  IF id \in DOMAIN s.conversations
  THEN [s EXCEPT !.conversations = [c \in DOMAIN @ \ {id} |-> @[c]]]
  ELSE s

\* ------------------------------------------------------- user handlers


on_skills_list(s, msg) == renderSkillsList(s, msg.skills)

on_skill_toggled(s, msg) ==
  LET s1 == IF msg.enabled
            THEN [s EXCEPT !.globalState.disabledSkills = @ \ {msg.name}]
            ELSE [s EXCEPT !.globalState.disabledSkills = @ \cup {msg.name}]
  IN updateSkillToggleUI(s1, msg.name, msg.enabled)

\* sendMessage without the comparison of activeConvId with backendConvId.
sendMessage_anyConversation(s) ==
  IF s.globalState.isBusy \/ ~s.globalState.isConnected THEN s
  ELSE sendCommand(setBusy(appendUserMessage(s), TRUE), Cmd("user_message", Null, EmptyHtml))

\* sendMessage with a non-empty input.
sendMessage(s) ==
  IF s.globalState.isBusy \/ ~s.globalState.isConnected THEN s
  ELSE IF s.globalState.activeConvId # s.globalState.backendConvId THEN s
  ELSE sendCommand(setBusy(appendUserMessage(s), TRUE), Cmd("user_message", Null, EmptyHtml))

\* The click handler of a skill button; isDisabled is the value captured at rendering.
skillClick(s, name) ==
  IF s.globalState.isBusy \/ s.skillRows[name].isDisabled THEN s
  ELSE sendCommand(appendStatusMessage(setBusy(s, TRUE)), Cmd("run_skill", name, EmptyHtml))

\* The change handler of a row's checkbox.
toggleChange(s, name) == sendCommand(s, Cmd("toggle_skill", name, EmptyHtml))

\* The reload button of the skills panel.
skillsReloadClick(s) == sendCommand(s, Cmd("skills_reload", Null, EmptyHtml))

\* The delete button of a sidebar item, the confirm() dialog answered yes.
deleteClick(s, id) ==
  IF id = s.globalState.backendConvId THEN s
  ELSE sendCommand(s, Cmd("delete_conversation", id, EmptyHtml))

newConvClick(s) ==
  IF s.globalState.isBusy THEN s
  ELSE sendCommand(s, Cmd("new_conversation", Null, innerHTML(s, getBackendConv(s))))


\* ------------------------------------------------------------- backend
\* The session manager and turn engine of the backend, from the specification:
\* convs/active (4.4), the turn state (4.3), the one queued switch (4.4).

\* Commands that change the backend's session state travel through the pipe in
\* order.  save_conversation_html carries nothing the model reads, and the
\* backend pushes conversations_list with every change of its registry, so the
\* answer to list_conversations never differs from the list already rendered.
PipeCmds == {"user_message", "run_skill", "switch_conversation", "delete_conversation", "new_conversation",
             "toggle_skill", "skills_reload"}
InPipe(c) == c.name \in PipeCmds
ToPipe(seq) == LET kept == SelectSeq(seq, InPipe)
              IN [i \in 1..Len(kept) |-> [name |-> kept[i].name, id |-> kept[i].id]]

TurnInFlight == backend.turn \in {"streaming", "finishing"}

\* The renderer's next state t, the handler that ran, and the backend's next state.
Commit(t, st, b) ==
  /\ \A c \in DOMAIN t.conversations : t.conversations[c].children <= MaxChildren
  /\ Len(pipe) + Len(ToPipe(t.sent)) <= MaxPipe
  /\ conversations' = t.conversations
  /\ globalState' = t.globalState
  /\ inputEl' = t.inputEl
  /\ convList' = t.convList
  /\ skillRows' = t.skillRows
  /\ pipe' = pipe \o ToPipe(t.sent)
  /\ backend' = b
  /\ dispatch' = dispatch
  /\ engine' = engine
  /\ UNCHANGED auxVars

\* The same, the handled command taken off the pipe first.
CommitPop(t, st, b) ==
  /\ \A c \in DOMAIN t.conversations : t.conversations[c].children <= MaxChildren
  /\ conversations' = t.conversations
  /\ globalState' = t.globalState
  /\ inputEl' = t.inputEl
  /\ convList' = t.convList
  /\ skillRows' = t.skillRows
  /\ pipe' = Tail(pipe) \o ToPipe(t.sent)
  /\ backend' = b
  /\ dispatch' = dispatch
  /\ engine' = engine
  /\ UNCHANGED auxVars

Op(op, id) == [op |-> op, id |-> id]

\* A user event whose handler returns at once leaves no trace; the model takes
\* the step only when the handler does something.
User(t, st) == t # UI /\ Commit(t, st, backend)

\* ---------------------------------------------------------- user actions

\* A click on a sidebar item.
ClickConversation ==
  \E id \in convList : User(switchConversation(UI, id), Op("click_conversation", id))

\* A click on the delete button of a sidebar item, confirmed.
ClickDelete ==
  \E id \in convList : User(deleteClick(UI, id), Op("click_delete", id))

ClickNewConv == User(newConvClick(UI), Op("click_new", Null))

\* Enter or the send button: the browser delivers neither while the control is disabled.
SendMessage ==
  /\ ~inputEl.disabled
  /\ User(sendMessage(UI), Op("send_message", Null))

ClickSkill ==
  \E n \in DOMAIN skillRows : User(skillClick(UI, n), Op("click_skill", n))

\* A change of a row's checkbox.
ToggleSkill ==
  \E n \in DOMAIN skillRows : User(toggleChange(UI, n), Op("toggle_skill", n))

ClickSkillsReload == User(skillsReloadClick(UI), Op("skills_reload", Null))

\* -------------------------------------------------------- backend events

\* The bootstrap event, once.
BackendSystemInfo ==
  /\ backend.turn = "boot"
  /\ Commit(on_system_info(UI, [conversation_id |-> backend.active, conversations |-> backend.convs,
                                disabled_skills |-> backend.disabled, skills |-> Skills]),
            Op("system_info", backend.active), [backend EXCEPT !.turn = "idle"])

\* A user message or a run of an enabled skill starts a turn on the active conversation.
BackendStartTurn ==
  /\ backend.turn = "idle" /\ backend.queued = Null
  /\ pipe # <<>> /\ Head(pipe).name \in {"user_message", "run_skill"}
  /\ Head(pipe).name = "run_skill" => Head(pipe).id \notin backend.disabled
  /\ CommitPop(UI, Op("turn_started", backend.active), [backend EXCEPT !.turn = "streaming"])

\* The direct invocation of a disabled skill is rejected with an error event.
BackendRejectSkill ==
  /\ backend.turn = "idle" /\ backend.queued = Null
  /\ pipe # <<>> /\ Head(pipe).name = "run_skill" /\ Head(pipe).id \in backend.disabled
  /\ CommitPop(on_error(UI), Op("error", "skill_disabled"), backend)

\* toggle_skill flips the skill's state and answers with skill_toggled.
BackendToggleSkill ==
  /\ pipe # <<>> /\ Head(pipe).name = "toggle_skill"
  /\ LET n == Head(pipe).id
         enabled == n \in backend.disabled
     IN CommitPop(on_skill_toggled(UI, [name |-> n, enabled |-> enabled]), Op("skill_toggled", n),
                  [backend EXCEPT !.disabled = IF enabled THEN @ \ {n} ELSE @ \cup {n}])

\* skills_reload rescans the skill directories and answers with skills_list.
BackendSkillsList ==
  /\ pipe # <<>> /\ Head(pipe).name = "skills_reload"
  /\ \E found \in SUBSET Skills :
       CommitPop(on_skills_list(UI, [skills |-> found]), Op("skills_list", Null), backend)

BackendToken ==
  /\ backend.turn = "streaming"
  /\ Commit(on_token(UI), Op("token", Null), backend)

BackendAssistantDone ==
  /\ backend.turn = "streaming"
  /\ Commit(on_assistant_done(UI), Op("assistant_done", Null), [backend EXCEPT !.turn = "finishing"])

BackendChatFinished ==
  /\ backend.turn = "finishing"
  /\ Commit(on_chat_finished(UI), Op("chat_finished", Null), [backend EXCEPT !.turn = "idle"])

\* Aborted (4.3): an error event, and control returns to Idle.
BackendAbort ==
  /\ backend.turn = "streaming"
  /\ Commit(on_error(UI), Op("error", "abort"), [backend EXCEPT !.turn = "idle"])

\* part_002: any other text on the subprocess's stderr reaches the renderer as an error event.
StderrError ==
  /\ TurnInFlight
  /\ Commit(on_error(UI), Op("error", "stderr"), backend)

\* switch (4.4): immediate when no turn is in flight, otherwise queued, a newer
\* request replacing the queued one.
BackendSwitch ==
  /\ pipe # <<>> /\ Head(pipe).name = "switch_conversation"
  /\ backend.queued = Null \/ TurnInFlight
  /\ LET id == Head(pipe).id IN
     IF TurnInFlight
     THEN CommitPop(UI, Op("switch_queued", id), [backend EXCEPT !.queued = id])
     ELSE IF id \in backend.convs
     THEN \E h \in 0..1 :
            CommitPop(on_conversation_switched(UI, id, h), Op("conversation_switched", id),
                      [backend EXCEPT !.active = id])
     ELSE CommitPop(on_error(UI), Op("error", "unknown_conversation"), backend)

\* The queued switch, applied when the turn has reached Done or Aborted.
BackendApplyQueued ==
  /\ backend.turn = "idle" /\ backend.queued # Null
  /\ LET id == backend.queued IN
     IF id \in backend.convs
     THEN \E h \in 0..1 :
            Commit(on_conversation_switched(UI, id, h), Op("conversation_switched", id),
                   [backend EXCEPT !.active = id, !.queued = Null])
     ELSE Commit(on_error(UI), Op("error", "unknown_conversation"), [backend EXCEPT !.queued = Null])

\* delete (4.4): refused with an error for the conversation that is processing a
\* turn (and, the active id having to stay in the map, for the active one).
BackendDelete ==
  /\ pipe # <<>> /\ Head(pipe).name = "delete_conversation"
  /\ backend.queued = Null \/ TurnInFlight
  /\ LET id == Head(pipe).id IN
     IF id = backend.active \/ id \notin backend.convs
     THEN CommitPop(on_error(UI), Op("error", IF id = backend.active THEN "conversation_busy" ELSE "unknown_conversation"), backend)
     ELSE CommitPop(on_conversations_list(on_conversation_deleted(UI, id), backend.convs \ {id}),
                    Op("conversation_deleted", id),
                    [backend EXCEPT !.convs = @ \ {id}])

\* new conversation: a fresh id becomes active.
BackendNew ==
  /\ backend.turn = "idle" /\ backend.queued = Null
  /\ pipe # <<>> /\ Head(pipe).name = "new_conversation"
  /\ \E id \in Convs \ backend.used :
       CommitPop(on_conversations_list(on_conversation_new(UI, id), backend.convs \cup {id}),
                 Op("conversation_new", id),
                 [backend EXCEPT !.convs = @ \cup {id}, !.used = @ \cup {id}, !.active = id])

\* ------------------------------------- tool dispatcher and confirmation gate
\* The dispatcher (4.1) and the confirmation gate (4.2) of the backend, from
\* the specification.  A tool call is a record: its tool, where it stands
\* (proposed, pending, approved, running, done), how its confirmation was
\* resolved (none, approved, rejected, aborted), how often its executor was
\* invoked (the spy's call count), and its ToolResult status.

\* Most tool calls the model proposes in one turn.
MaxCalls == 3
\* Most out-of-protocol confirmation responses followed.
MaxAnomalies == 1
\* Worker cap for parallel-safe calls.
WorkerCap == 4
\* Most calls in one parallel-safe batch.
MaxBatch == 6

\* Tools the model may name; "no_such_tool" is not registered.
ToolNames == {"read_file", "write_file", "no_such_tool"}
Registry == [read_file  |-> [requiresConfirmation |-> FALSE, parallelSafe |-> TRUE],
             write_file |-> [requiresConfirmation |-> TRUE, parallelSafe |-> FALSE]]

DispatchStart == [calls |-> <<>>, pendingMap |-> {}, autoConfirm |-> FALSE,
                  aborted |-> FALSE, anomalies |-> 0, anomalyLog |-> <<>>, history |-> <<>>]

NewCall(tool) == [tool |-> tool, st |-> "proposed", decision |-> "none", execCount |-> 0, result |-> "none"]

CallIds == 1..Len(dispatch.calls)
Registered(i) == dispatch.calls[i].tool \in DOMAIN Registry
Gated(i) == Registered(i) /\ Registry[dispatch.calls[i].tool].requiresConfirmation
Running == {i \in CallIds : dispatch.calls[i].st = "running"}
EarlierDone(i) == \A j \in 1..(i - 1) : dispatch.calls[j].st = "done"

Dispatching(d) == dispatch' = d /\ UNCHANGED <<uiVars, engine, auxVars>>

\* Streaming: the model proposes a tool call for this step.
Propose ==
  /\ ~dispatch.aborted /\ Len(dispatch.calls) < MaxCalls
  /\ \E tool \in ToolNames :
       Dispatching([dispatch EXCEPT !.calls = Append(@, NewCall(tool))])

\* The autoconfirm command: auto-approve mode on or off.
ToggleAutoConfirm ==
  /\ dispatch.calls = <<>>
  /\ Dispatching([dispatch EXCEPT !.autoConfirm = ~@])

\* requestConfirmation: the call becomes pending and its path is suspended; in
\* auto-approve mode it is approved at once.  Exclusive calls are taken one
\* at a time, in order.
RequestConfirmation(i) ==
  /\ ~dispatch.aborted
  /\ dispatch.calls[i].st = "proposed" /\ Gated(i) /\ EarlierDone(i)
  /\ IF dispatch.autoConfirm
     THEN Dispatching([dispatch EXCEPT !.calls[i].st = "approved", !.calls[i].decision = "approved"])
     ELSE Dispatching([dispatch EXCEPT !.calls[i].st = "pending", !.pendingMap = @ \cup {i}])

\* resolve with the last response winning: a response for an id that was
\* already resolved by the user is applied over the first one.
Resolve_lastWins(i, approved) ==
  IF i \in dispatch.pendingMap \/ dispatch.calls[i].decision \in {"approved", "rejected"}
  THEN /\ i \in dispatch.pendingMap \/ dispatch.anomalies < MaxAnomalies
       /\ Dispatching([dispatch EXCEPT
            !.pendingMap = @ \ {i},
            !.anomalies = IF i \in dispatch.pendingMap THEN @ ELSE @ + 1,
            !.anomalyLog = IF i \in dispatch.pendingMap THEN @
                           ELSE Append(@, [id |-> i, decision |-> dispatch.calls[i].decision]),
            !.calls[i].decision = IF approved THEN "approved" ELSE "rejected",
            !.calls[i].st = IF approved THEN "approved" ELSE "done",
            !.calls[i].result = IF approved THEN "none" ELSE "cancelled"])
  ELSE /\ dispatch.anomalies < MaxAnomalies
       /\ Dispatching([dispatch EXCEPT
            !.anomalies = @ + 1,
            !.anomalyLog = Append(@, [id |-> i, decision |-> dispatch.calls[i].decision])])

\* resolve(id, approved): the one resolution of a pending id; any other
\* confirmation response is an anomaly, logged and without effect.
Resolve(i, approved) ==
  IF i \in dispatch.pendingMap
  THEN Dispatching([dispatch EXCEPT
         !.pendingMap = @ \ {i},
         !.calls[i].decision = IF approved THEN "approved" ELSE "rejected",
         !.calls[i].st = IF approved THEN "approved" ELSE "done",
         !.calls[i].result = IF approved THEN @ ELSE "cancelled"])
  ELSE /\ dispatch.anomalies < MaxAnomalies
       /\ Dispatching([dispatch EXCEPT
            !.anomalies = @ + 1,
            !.anomalyLog = Append(@, [id |-> i, decision |-> dispatch.calls[i].decision])])

ConfirmResponse == \E i \in CallIds, approved \in BOOLEAN : Resolve(i, approved)

\* Whether the dispatcher may hand call i to its executor now: a gated call
\* only once approved and with nothing else running, a parallel-safe call
\* while a worker is free and the exclusive calls before it are done.
CanExecute_beforeResolution(i) ==
  /\ Registered(i)
  /\ dispatch.calls[i].st \in {"proposed", "pending", "approved"}
  /\ Running = {}

\* The dispatch policy with no worker cap: every parallel-safe call of the
\* batch is started at once.
CanExecute_noCap(i) ==
  /\ Registered(i)
  /\ IF Gated(i)
     THEN dispatch.calls[i].st = "approved" /\ Running = {}
     ELSE /\ dispatch.calls[i].st = "proposed"
          /\ \A j \in Running : ~Gated(j)
          /\ \A j \in 1..(i - 1) : Gated(j) => dispatch.calls[j].st = "done"

\* The dispatch policy with the parallel-safety class not enforced: every
\* registered call is handed to a free worker as soon as it is proposed.
CanExecute_allParallel(i) ==
  /\ Registered(i)
  /\ dispatch.calls[i].st \in {"proposed", "approved"}
  /\ Cardinality(Running) < WorkerCap

CanExecute(i) ==
  /\ Registered(i)
  /\ IF Gated(i)
     THEN dispatch.calls[i].st = "approved" /\ Running = {}
     ELSE /\ dispatch.calls[i].st = "proposed"
          /\ Cardinality(Running) < WorkerCap
          /\ \A j \in Running : ~Gated(j)
          /\ \A j \in 1..(i - 1) : Gated(j) => dispatch.calls[j].st = "done"

\* dispatch: the executor is invoked.
Execute ==
  \E i \in CallIds :
    /\ ~dispatch.aborted /\ CanExecute(i)
    /\ Dispatching([dispatch EXCEPT !.calls[i].st = "running", !.calls[i].execCount = @ + 1])

\* The executor returns; once started, a call is never cancelled.
Complete ==
  \E i \in Running, status \in {"ok", "error"} :
    Dispatching([dispatch EXCEPT !.calls[i].st = "done", !.calls[i].result = status])

\* Unknown tool name: a local error result.
UnknownTool ==
  \E i \in CallIds :
    /\ ~dispatch.aborted
    /\ dispatch.calls[i].st = "proposed" /\ ~Registered(i)
    /\ Dispatching([dispatch EXCEPT !.calls[i].st = "done", !.calls[i].result = "error"])

\* The abort that cancels what was blocked but leaves the gate's pending map
\* as it was.
AbortTurn_keepsPendingMap ==
  /\ ~dispatch.aborted /\ dispatch.calls # <<>>
  /\ Dispatching([dispatch EXCEPT
       !.aborted = TRUE,
       !.calls = [i \in CallIds |->
                    IF dispatch.calls[i].st = "pending"
                    THEN [dispatch.calls[i] EXCEPT !.st = "done", !.decision = "aborted", !.result = "cancelled"]
                    ELSE IF dispatch.calls[i].st \in {"proposed", "approved"}
                    THEN [dispatch.calls[i] EXCEPT !.st = "done", !.result = "cancelled"]
                    ELSE dispatch.calls[i]]])

\* The owning turn is aborted: pending confirmations are discarded, what was
\* blocked on them fails with cancelled, new dispatch is refused; running
\* executions finish.
AbortTurn ==
  /\ ~dispatch.aborted /\ dispatch.calls # <<>>
  /\ Dispatching([dispatch EXCEPT
       !.aborted = TRUE,
       !.pendingMap = {},
       !.calls = [i \in CallIds |->
                    IF dispatch.calls[i].st = "pending"
                    THEN [dispatch.calls[i] EXCEPT !.st = "done", !.decision = "aborted", !.result = "cancelled"]
                    ELSE IF dispatch.calls[i].st \in {"proposed", "approved"}
                    THEN [dispatch.calls[i] EXCEPT !.st = "done", !.result = "cancelled"]
                    ELSE dispatch.calls[i]]])

\* The tool-role messages appended out of order: the result of any finished
\* call is appended as soon as the call has completed.
AppendResult_onCompletion ==
  \E i \in CallIds :
    /\ dispatch.calls[i].st = "done"
    /\ \A k \in 1..Len(dispatch.history) : dispatch.history[k].id # i
    /\ Dispatching([dispatch EXCEPT !.history = Append(@, [id |-> i, status |-> dispatch.calls[i].result])])

\* The ToolResult of the next call, in the order the calls were dispatched, is
\* appended to the conversation history as a tool-role message once that call
\* is done.
AppendResult ==
  LET i == Len(dispatch.history) + 1 IN
  /\ i \in CallIds /\ dispatch.calls[i].st = "done"
  /\ Dispatching([dispatch EXCEPT !.history = Append(@, [id |-> i, status |-> dispatch.calls[i].result])])

\* A step of the model that proposes one more parallel-safe call for the batch.
ProposeSafe ==
  /\ ~dispatch.aborted /\ Len(dispatch.calls) < MaxBatch
  /\ Dispatching([dispatch EXCEPT !.calls = Append(@, NewCall("read_file"))])

\* The ToolDispatch phase of a step whose calls are all parallel-safe.
NextPool ==
  \/ ProposeSafe
  \/ Execute
  \/ Complete
  \/ AppendResult

NextDispatch ==
  \/ Propose
  \/ ToggleAutoConfirm
  \/ \E i \in CallIds : RequestConfirmation(i)
  \/ ConfirmResponse
  \/ Execute
  \/ Complete
  \/ UnknownTool
  \/ AbortTurn
  \/ AppendResult


\* ------------------------------------- turn engine and context compactor
\* The streaming turn engine (4.3) and the context compactor (4.5) of the
\* backend, from the specification, for one conversation.  A message of the
\* history is a record: its serial number n (0 for a synthetic summary), its
\* role, and its estimated tokens.

\* Maximum tool-call rounds per turn.
MaxRounds == 2
\* Messages created in the model (serial numbers).
MaxSerial == 18
\* Most messages of a stored history.
MaxStored == 12
\* compact_keep_recent: the most recent messages compaction keeps.
K == 10
\* Context limit and auto-compact ratio (defaults), the ratio as a fraction.
ContextLimit == 128000
RatioNum == 8
RatioDen == 10
\* Estimated tokens of a user message, of any other message, of a summary.
UserTokens == {6400, 12800}
ReplyTokens == 6400
SummaryTokens == {3200, 19200}

EngineStart == [phase |-> "Idle", rounds |-> 0, history |-> <<>>, next |-> 1,
                compactTried |-> FALSE, tokenSeen |-> FALSE, truncated |-> FALSE, out |-> <<>>,
                report |-> <<>>]

Msg(n, role, tokens) == [n |-> n, role |-> role, tokens |-> tokens]

\* A conversation restored from an earlier session: its history, and the serial
\* number of the next message.
Restored(h) == [EngineStart EXCEPT !.history = h, !.next = Len(h) + 1]
StoredHistory == [k \in 1..9 |-> Msg(k, "stored", IF k = 9 THEN 6400 ELSE 9600)]

RECURSIVE estimatedTokens(_)
estimatedTokens(h) == IF h = <<>> THEN 0 ELSE Head(h).tokens + estimatedTokens(Tail(h))

\* shouldCompact: estimatedTokens / contextLimit >= autoCompactRatio.
shouldCompact_strictlyAbove(h) == estimatedTokens(h) * RatioDen > ContextLimit * RatioNum

shouldCompact(h) == estimatedTokens(h) * RatioDen >= ContextLimit * RatioNum

\* The most recent K messages, all of them when there are K or fewer.
Recent(h) == IF Len(h) <= K THEN h ELSE SubSeq(h, Len(h) - K + 1, Len(h))
Older(h) == IF Len(h) <= K THEN <<>> ELSE SubSeq(h, 1, Len(h) - K)

\* compact off by one: the summary takes one of the K most recent messages too.
compact_dropsOneRecent(h, summaryTokens, insert) ==
  IF Older(h) = <<>>
  THEN IF insert THEN <<Msg(0, "summary", summaryTokens)>> \o h ELSE h
  ELSE <<Msg(0, "summary", summaryTokens)>> \o Tail(Recent(h))

\* compact: all but the most recent K messages become one synthetic summary
\* message, in place.  The specification does not say what becomes of an empty
\* range: with insert, the summary message is created all the same.
compact(h, summaryTokens, insert) ==
  IF Older(h) = <<>>
  THEN IF insert THEN <<Msg(0, "summary", summaryTokens)>> \o h ELSE h
  ELSE <<Msg(0, "summary", summaryTokens)>> \o Recent(h)

Engineering(e) == engine' = e /\ UNCHANGED <<uiVars, dispatch, auxVars>>

AppendMsg(e, role, tokens) ==
  [e EXCEPT !.history = Append(@, Msg(e.next, role, tokens)), !.next = @ + 1]

\* Idle: a user message arrives and is appended; the turn is about to start.
UserMessage ==
  /\ engine.phase = "Idle"
  /\ engine.next + MaxRounds + 2 <= MaxSerial
  /\ \E t \in UserTokens :
       Engineering([AppendMsg(engine, "user", t) EXCEPT
                      !.phase = "Starting", !.compactTried = FALSE, !.tokenSeen = FALSE,
                      !.truncated = FALSE, !.out = <<>>, !.report = <<>>])

\* The compactor run whenever the threshold is found crossed, also while the
\* turn is streaming.
Compact_midTurn ==
  /\ engine.phase \in {"Starting", "Streaming"} /\ ~engine.compactTried /\ shouldCompact(engine.history)
  /\ \E st \in SummaryTokens, insert \in BOOLEAN :
       Engineering([engine EXCEPT !.history = compact(@, st, insert), !.compactTried = TRUE,
                                  !.out = <<"compacting", "compact_done">>,
                                  !.report = <<estimatedTokens(engine.history),
                                               estimatedTokens(compact(engine.history, st, insert))>>])

\* The compactor, run synchronously before the turn is started; compact_done
\* reports the tokens before and after.
Compact ==
  /\ engine.phase = "Starting" /\ ~engine.compactTried /\ shouldCompact(engine.history)
  /\ \E st \in SummaryTokens, insert \in BOOLEAN :
       Engineering([engine EXCEPT !.history = compact(@, st, insert), !.compactTried = TRUE,
                                  !.out = <<"compacting", "compact_done">>,
                                  !.report = <<estimatedTokens(engine.history),
                                               estimatedTokens(compact(engine.history, st, insert))>>])

\* The summarization call fails: compaction is skipped for this turn.
CompactFails ==
  /\ engine.phase = "Starting" /\ ~engine.compactTried /\ shouldCompact(engine.history)
  /\ Engineering([engine EXCEPT !.compactTried = TRUE, !.out = <<"compacting", "status">>])

\* Idle -> Streaming.
BeginTurn ==
  /\ engine.phase = "Starting"
  /\ engine.compactTried \/ ~shouldCompact(engine.history)
  /\ Engineering([engine EXCEPT !.phase = "Streaming", !.rounds = 0, !.out = <<>>])

\* Streaming: a token fragment is forwarded.
StreamToken ==
  /\ engine.phase = "Streaming"
  /\ Engineering([engine EXCEPT !.tokenSeen = TRUE, !.out = <<"token">>])

\* The step's proposal of tool calls with the loop bound not applied.
ProposeTools_unbounded ==
  /\ engine.phase = "Streaming"
  /\ Engineering([engine EXCEPT !.phase = "ToolDispatch", !.out = <<"tool_call">>,
                                !.rounds = IF @ < MaxRounds THEN @ + 1 ELSE MaxRounds])

\* Streaming: the model proposes tool calls.  Within the bound the machine
\* moves to ToolDispatch; past it, Done is forced and a truncation notice is
\* appended as a system message.
ProposeTools ==
  /\ engine.phase = "Streaming"
  /\ IF engine.rounds < MaxRounds
     THEN Engineering([engine EXCEPT !.phase = "ToolDispatch", !.rounds = @ + 1, !.out = <<"tool_call">>])
     ELSE Engineering([AppendMsg(engine, "system", ReplyTokens) EXCEPT
                         !.phase = "Done", !.truncated = TRUE, !.out = <<"assistant_done">>])

\* ToolDispatch -> Streaming: the results are appended as a tool-role message.
ToolsDone ==
  /\ engine.phase = "ToolDispatch"
  /\ Engineering([AppendMsg(engine, "tool", ReplyTokens) EXCEPT !.phase = "Streaming", !.out = <<"tool_result">>])

\* A step without tool calls: the accumulated text is the final answer.
FinalAnswer ==
  /\ engine.phase = "Streaming"
  /\ Engineering([AppendMsg(engine, "assistant", ReplyTokens) EXCEPT !.phase = "Done", !.out = <<"assistant_done">>])

\* Fatal upstream failure.
EngineAbort ==
  /\ engine.phase \in {"Streaming", "ToolDispatch"}
  /\ Engineering([engine EXCEPT !.phase = "Aborted", !.out = <<"error">>])

\* Done or Aborted: turn-finished, control returns to Idle.
TurnFinished ==
  /\ engine.phase \in {"Done", "Aborted"}
  /\ Engineering([engine EXCEPT !.phase = "Idle", !.out = <<"chat_finished">>])

\* The start of a turn: the user message, the compactor, Streaming.
NextCompact ==
  \/ UserMessage
  \/ Compact
  \/ CompactFails
  \/ BeginTurn

NextEngine ==
  \/ UserMessage
  \/ Compact
  \/ CompactFails
  \/ BeginTurn
  \/ StreamToken
  \/ ProposeTools
  \/ ToolsDone
  \/ FinalAnswer
  \/ EngineAbort
  \/ TurnFinished

\* ------------------------------------------------------- message view
\* The elements of the backend conversation's view (conv.el), each with the
\* number it was created under; currentAssistantEl and pendingToolCards hold
\* such numbers (0: null).  A tool call's args and result are the number of
\* the call they belong to.

MaxEvents == 7
MaxStreamBatch == 2
StreamTools == {"read_file", "write_file"}

Element(n, kind, name, k) ==
  [el |-> n, kind |-> kind, name |-> name, args |-> k, result |-> 0, raw |-> <<>>,
   cls |-> "", ephemeral |-> FALSE]

ViewStart ==
  [children |-> <<>>, created |-> 0, currentAssistantEl |-> 0, currentAssistantRaw |-> <<>>,
   pendingToolCards |-> <<>>, overlay |-> FALSE, isBusy |-> TRUE, statusConn |-> "busy",
   pendingSwitchId |-> Null, sent |-> <<>>]

\* conv.el.appendChild of a new element.
view_appendChild(v, e) == [v EXCEPT !.children = Append(@, e), !.created = e.el]

\* The element of the view numbered n.
CardOf(v, n) == CHOOSE e \in {v.children[i] : i \in DOMAIN v.children} : e.el = n

\* The element with e's number replaced by e, wherever it is in the view.
SetEl(v, e) == [v EXCEPT !.children = [i \in DOMAIN @ |-> IF @[i].el = e.el THEN e ELSE @[i]]]

view_removeEphemeralStatus(v) ==
  LET keep(e) == ~(e.kind = "status" /\ e.ephemeral)
  IN [v EXCEPT !.children = SelectSeq(@, keep)]

view_setStatus(v, st) == [v EXCEPT !.statusConn = st]
view_setBusy(v, busy) == [v EXCEPT !.isBusy = busy]

view_startAssistantMessage(v) ==
  LET e == [Element(v.created + 1, "assistant", "", 0) EXCEPT !.cls = "streaming-cursor"]
  IN [view_appendChild(v, e) EXCEPT !.currentAssistantEl = e.el, !.currentAssistantRaw = <<>>]

view_appendToken(v, content) ==
  LET v1 == IF v.currentAssistantEl = 0 THEN view_startAssistantMessage(v) ELSE v
      raw == Append(v1.currentAssistantRaw, content)
  IN [SetEl(v1, [CardOf(v1, v1.currentAssistantEl) EXCEPT !.raw = raw]) EXCEPT !.currentAssistantRaw = raw]

view_finalizeAssistantMessage(v) ==
  IF v.currentAssistantEl = 0 THEN v
  ELSE [SetEl(v, [CardOf(v, v.currentAssistantEl) EXCEPT !.cls = ""])
          EXCEPT !.currentAssistantEl = 0, !.currentAssistantRaw = <<>>]

\* appendToolCall without its first statement, finalizeAssistantMessage().
view_appendToolCall_keepsBubble(v, name, args) ==
  LET card == [Element(v.created + 1, "tool", name, args) EXCEPT !.cls = "running"]
  IN [view_appendChild(v, card) EXCEPT !.pendingToolCards = Append(@, card.el)]

view_appendToolCall(v, name, args) ==
  LET v1 == view_finalizeAssistantMessage(v)
      card == [Element(v1.created + 1, "tool", name, args) EXCEPT !.cls = "running"]
  IN [view_appendChild(v1, card) EXCEPT !.pendingToolCards = Append(@, card.el)]

\* findIndex: the first pending card whose data-tool-name is the name.
findIndex(v, name) ==
  LET hits == {i \in DOMAIN v.pendingToolCards : CardOf(v, v.pendingToolCards[i]).name = name}
  IN IF hits = {} THEN 0 ELSE CHOOSE i \in hits : \A j \in hits : i <= j

\* The pending cards without the idx-th (splice(idx, 1)).
splice(cards, idx) == [i \in 1..(Len(cards) - 1) |-> IF i < idx THEN cards[i] ELSE cards[i + 1]]

view_appendToolResult(v, name, result, status) ==
  LET idx == findIndex(v, name)
  IN IF idx = 0 THEN v
     ELSE LET card == CardOf(v, v.pendingToolCards[idx])
          IN [SetEl(v, [card EXCEPT !.cls = status, !.result = result])
                EXCEPT !.pendingToolCards = splice(@, idx)]

view_appendConfirmCard(v, id, toolName, args) ==
  LET v1 == view_finalizeAssistantMessage(v)
  IN view_appendChild(v1, [Element(v1.created + 1, "confirm", toolName, args) EXCEPT !.cls = "open"])

\* A click on a resolved card whose buttons still answered.
view_resolveConfirm_keepsButtons(v, j, approved) ==
  [v EXCEPT !.children[j].cls = IF approved THEN "approved" ELSE "cancelled",
            !.sent = Append(@, [name |-> "confirm_response", arg |-> v.children[j].args])]

\* resolveConfirm(card, id, approved) from a click on a button of the card
\* at position j: the buttons are disabled and replaced by the label, then
\* sendConfirm.  A card whose buttons are gone has nothing to click.
view_resolveConfirm(v, j, approved) ==
  IF v.children[j].cls = "open"
  THEN [v EXCEPT !.children[j].cls = IF approved THEN "approved" ELSE "cancelled",
                 !.sent = Append(@, [name |-> "confirm_response", arg |-> v.children[j].args])]
  ELSE v

view_appendStatusMessage(v, ephemeral) ==
  LET v1 == view_removeEphemeralStatus(v)
  IN view_appendChild(v1, [Element(v1.created + 1, "status", "", 0) EXCEPT !.ephemeral = ephemeral])

view_appendErrorMessage(v) == view_appendChild(v, Element(v.created + 1, "error", "", 0))

view_showCompactingSpinner(v) == [v EXCEPT !.overlay = TRUE]
view_hideCompactingSpinner(v) == [v EXCEPT !.overlay = FALSE]

\* An event of the protocol; the fields its kind does not have are empty.
Event(type, name, k, status) == [type |-> type, name |-> name, k |-> k, status |-> status]

\* chat_finished: the snapshot, the queued switch if there is one, the list request.
view_chat_finished(v) ==
  LET v1 == view_finalizeAssistantMessage(view_removeEphemeralStatus(v))
      v2 == IF v1.isBusy THEN view_setBusy(view_setStatus(v1, "ready"), FALSE) ELSE v1
      v3 == [v2 EXCEPT !.sent = Append(@, [name |-> "save_conversation_html", arg |-> Len(v2.children)])]
      v4 == IF v3.pendingSwitchId # Null
            THEN [v3 EXCEPT !.sent = Append(@, [name |-> "switch_conversation", arg |-> Len(v3.children)]),
                            !.pendingSwitchId = Null]
            ELSE v3
  IN [v4 EXCEPT !.sent = Append(@, [name |-> "list_conversations", arg |-> 0])]

\* window.agent.onMessage, the cases of one turn's event stream.
onMessage(v, msg) ==
  CASE msg.type = "status" -> view_appendStatusMessage(v, msg.status = "ephemeral")
    [] msg.type = "token" ->
         view_setStatus(view_appendToken(view_removeEphemeralStatus(v), "t"), "busy")
    [] msg.type = "tool_call" ->
         view_setStatus(view_appendToolCall(view_removeEphemeralStatus(v), msg.name, msg.k), "busy")
    [] msg.type = "confirm_request" -> view_appendConfirmCard(v, msg.k, msg.name, msg.k)
    [] msg.type = "tool_result" -> view_appendToolResult(v, msg.name, msg.k, msg.status)
    [] msg.type = "assistant_done" ->
         view_setBusy(view_setStatus(view_finalizeAssistantMessage(view_removeEphemeralStatus(v)), "ready"), FALSE)
    [] msg.type = "chat_finished" -> view_chat_finished(v)
    [] msg.type = "compacting" -> view_showCompactingSpinner(v)
    [] msg.type = "compact_done" -> view_appendStatusMessage(view_hideCompactingSpinner(v), FALSE)
    [] msg.type = "error" ->
         view_setBusy(view_setStatus(view_appendErrorMessage(view_hideCompactingSpinner(
             view_finalizeAssistantMessage(v))), "error"), FALSE)

\* ------------------------------------------------------ one turn's events
\* The events the backend emits for one turn, from the specification (4.3,
\* 4.5, 6): compaction before the turn, then steps of tokens followed by the
\* step's tool calls, a confirmation request for a gated call, the results as
\* the calls complete, and assistant_done, chat_finished or an error.  Each
\* event is handled by onMessage as it is emitted.

StreamStart == [phase |-> "Starting", calls |-> <<>>, events |-> 0, last |-> Event("none", "", 0, "")]

NeedsConfirm(name) == name = "write_file"

\* The backend emits msg and moves to st; the renderer handles msg.
Emit(msg, st) ==
  /\ stream.events < MaxEvents
  /\ view' = onMessage(view, msg)
  /\ stream' = [st EXCEPT !.events = @ + 1, !.last = msg]
  /\ UNCHANGED <<uiVars, dispatch, engine, wire, bridge, app, socket>>

Batch == {i \in DOMAIN stream.calls : stream.calls[i].st # "done"}

EmitCompacting ==
  /\ stream.phase = "Starting"
  /\ Emit(Event("compacting", "", 0, ""), [stream EXCEPT !.phase = "Compacting"])

EmitCompactDone ==
  /\ stream.phase = "Compacting"
  /\ Emit(Event("compact_done", "", 0, ""), [stream EXCEPT !.phase = "Streaming"])

\* The summarization call fails: compaction is skipped for this turn, the
\* failure is reported as a status event that is kept, and the turn proceeds.
EmitCompactFailed ==
  /\ stream.phase = "Compacting"
  /\ Emit(Event("status", "", 0, "kept"), [stream EXCEPT !.phase = "Streaming"])

EmitStatus ==
  /\ stream.phase \in {"Starting", "Streaming"}
  /\ \E eph \in {"ephemeral", "kept"} : Emit(Event("status", "", 0, eph), stream)

EmitToken ==
  /\ stream.phase \in {"Starting", "Streaming"}
  /\ Emit(Event("token", "", 0, ""), [stream EXCEPT !.phase = "Streaming"])

\* tool_call for the next call of the step's batch; the calls of a batch are
\* announced before the first of them completes.
EmitToolCall ==
  /\ stream.phase \in {"Starting", "Streaming", "ToolDispatch"}
  /\ Cardinality(Batch) < MaxStreamBatch
  /\ \A i \in Batch : stream.calls[i].st # "resulted"
  /\ \E name \in StreamTools :
       LET k == Len(stream.calls) + 1
       IN Emit(Event("tool_call", name, k, ""),
               [stream EXCEPT !.phase = "ToolDispatch",
                              !.calls = Append(@, [name |-> name,
                                                   st |-> IF NeedsConfirm(name) THEN "gated" ELSE "running"])])

EmitConfirmRequest ==
  /\ stream.phase = "ToolDispatch"
  /\ \E i \in Batch :
       /\ stream.calls[i].st = "gated"
       /\ Emit(Event("confirm_request", stream.calls[i].name, i, ""),
               [stream EXCEPT !.calls[i].st = "awaiting"])

\* A click on a button of the confirmation card at position j of the view:
\* resolveConfirm where the card still has its buttons; nothing where they
\* have been replaced by the label.  The backend takes the first answer to
\* a pending request.
ConfirmClick ==
  \E j \in DOMAIN view.children, approved \in BOOLEAN :
    LET i == view.children[j].args
        v == view_resolveConfirm(view, j, approved)
    IN /\ view.children[j].kind = "confirm"
       /\ view' = v
       /\ stream' = IF v # view /\ stream.calls[i].st = "awaiting"
                      THEN [stream EXCEPT !.calls[i].st = IF approved THEN "running" ELSE "rejected"]
                      ELSE stream
       /\ UNCHANGED <<uiVars, dispatch, engine, wire, bridge, app, socket>>

\* tool_result of a call of the batch, in the order the calls complete.
EmitToolResult ==
  /\ stream.phase = "ToolDispatch"
  /\ \E i \in Batch :
       /\ stream.calls[i].st \in {"running", "rejected"}
       /\ \E status \in (IF stream.calls[i].st = "rejected" THEN {"cancelled"} ELSE {"ok", "error"}) :
            Emit(Event("tool_result", stream.calls[i].name, i, status),
                 [stream EXCEPT !.calls[i].st = "resulted"])

\* The batch is complete: the next step of the turn.
NextStep ==
  /\ stream.phase = "ToolDispatch"
  /\ Batch # {} /\ \A i \in Batch : stream.calls[i].st = "resulted"
  /\ stream' = [stream EXCEPT !.phase = "Streaming",
                              !.calls = [i \in DOMAIN @ |-> [@[i] EXCEPT !.st = "done"]]]
  /\ UNCHANGED <<uiVars, dispatch, engine, wire, view, bridge, app, socket>>

EmitAssistantDone ==
  /\ stream.phase = "Streaming"
  /\ Emit(Event("assistant_done", "", 0, ""), [stream EXCEPT !.phase = "Done"])

EmitError ==
  /\ stream.phase \in {"Compacting", "Streaming", "ToolDispatch"}
  /\ Emit(Event("error", "", 0, ""), [stream EXCEPT !.phase = "Done"])

EmitChatFinished ==
  /\ stream.phase = "Done"
  /\ Emit(Event("chat_finished", "", 0, ""), [stream EXCEPT !.phase = "Finished"])

NextView ==
  \/ EmitCompacting
  \/ EmitCompactDone
  \/ EmitCompactFailed
  \/ EmitStatus
  \/ EmitToken
  \/ EmitToolCall
  \/ EmitConfirmRequest
  \/ ConfirmClick
  \/ EmitToolResult
  \/ NextStep
  \/ EmitAssistantDone
  \/ EmitError
  \/ EmitChatFinished

\* --------------------------------------------------------- python bridge
\* setupPythonBridge: the subprocess writes lines to stdout and text to
\* stderr; the main process reads them and sends python-message to the
\* renderer.  proc is "spawning", "running", "exited" (the process is gone,
\* its pipes may still hold data) or "closed" (the 'close' event was emitted).

MaxWrites == 3
Lines == {"json", "garbage", ""}
Chunks == {"traceback", "Processing page", ""}

BridgeStart == [proc |-> "spawning", stdout |-> <<>>, stderr |-> <<>>, written |-> 0, delivered |-> <<>>]

Bridging(b) == bridge' = b /\ UNCHANGED <<uiVars, dispatch, engine, wire, view, stream, app, socket>>

\* safeSend('python-message', msg), the window alive.
safeSend(b, msg) == [b EXCEPT !.delivered = Append(@, msg)]

Spawned ==
  /\ bridge.proc = "spawning"
  /\ Bridging([bridge EXCEPT !.proc = "running"])

\* pythonProcess.on('error'): the process could not be spawned.
SpawnError ==
  /\ bridge.proc = "spawning"
  /\ Bridging(safeSend([bridge EXCEPT !.proc = "exited"], "error_spawn"))

WriteStdout ==
  /\ bridge.proc = "running" /\ bridge.written < MaxWrites
  /\ \E line \in Lines : Bridging([bridge EXCEPT !.stdout = Append(@, line), !.written = @ + 1])

WriteStderr ==
  /\ bridge.proc = "running" /\ bridge.written < MaxWrites
  /\ \E text \in Chunks : Bridging([bridge EXCEPT !.stderr = Append(@, text), !.written = @ + 1])

\* The subprocess exits or is killed.
ProcessExit ==
  /\ bridge.proc = "running"
  /\ Bridging([bridge EXCEPT !.proc = "exited"])

\* rl.on('line'): blank lines and lines that are not JSON are not forwarded.
ReadLine ==
  /\ bridge.stdout # <<>>
  /\ LET line == Head(bridge.stdout)
         b == [bridge EXCEPT !.stdout = Tail(@)]
     IN Bridging(IF line = "json" THEN safeSend(b, "event") ELSE b)

\* pythonProcess.stderr.on('data'): text other than the PDF log is forwarded as an error.
StderrData ==
  /\ bridge.stderr # <<>>
  /\ LET text == Head(bridge.stderr)
         b == [bridge EXCEPT !.stderr = Tail(@)]
     IN Bridging(IF text = "traceback" THEN safeSend(b, "error_stderr") ELSE b)

\* The handler of 'close' run as soon as the process has exited, its pipes unread.
Close_onExit ==
  /\ bridge.proc = "exited"
  /\ Bridging(safeSend([bridge EXCEPT !.proc = "closed"], "error_exit"))

\* pythonProcess.on('close'): emitted once the process has ended and its
\* stdio streams have been closed, that is, read to their end.
Close ==
  /\ bridge.proc = "exited" /\ bridge.stdout = <<>> /\ bridge.stderr = <<>>
  /\ Bridging(safeSend([bridge EXCEPT !.proc = "closed"], "error_exit"))

Reading == ReadLine \/ StderrData \/ Close

NextBridge ==
  \/ Spawned
  \/ SpawnError
  \/ WriteStdout
  \/ WriteStderr
  \/ ProcessExit
  \/ ReadLine
  \/ StderrData
  \/ Close

\* ---------------------------------------------------------- main process
\* main.js: the application's lifecycle.  procs holds every subprocess ever
\* spawned, "alive", "exited" (ended by itself) or "killed"; pythonProcess
\* is a position in it (0: null or undefined).  listeners counts the
\* listeners of 'send-to-python' registered on ipcMain; sends holds every
\* message the renderer passed to ipcRenderer.send, with the number of
\* times it was written to a subprocess's stdin.

MaxSpawns == 2
MaxSends == 3
Platforms == {"darwin", "linux"}

AppStart ==
  [ready |-> FALSE, quit |-> FALSE, platform |-> Null, mainWindow |-> FALSE, pythonProcess |-> 0,
   procs |-> <<>>, listeners |-> 0, sends |-> <<>>]

\* setupPythonBridge: returns before the spawn when no interpreter is
\* found; otherwise spawns the subprocess and registers one more listener
\* of 'send-to-python'.
setupPythonBridge(a, resolved) ==
  IF ~resolved THEN a
  ELSE [a EXCEPT !.procs = Append(@, "alive"),
                 !.pythonProcess = Len(a.procs) + 1,
                 !.listeners = @ + 1]

createWindow(a, resolved) == setupPythonBridge([a EXCEPT !.mainWindow = TRUE], resolved)

\* if (pythonProcess) { pythonProcess.kill(); pythonProcess = null; }
kill(a) ==
  IF a.pythonProcess # 0
  THEN [a EXCEPT !.procs[a.pythonProcess] = IF @ = "alive" THEN "killed" ELSE @,
                 !.pythonProcess = 0]
  ELSE a

\* app.on('before-quit'); the application then ends.
beforeQuit(a) == [kill(a) EXCEPT !.quit = TRUE, !.mainWindow = FALSE]

\* A window-all-closed handler that leaves the subprocess running.
windowAllClosed_keepsProcess(a) ==
  IF a.platform # "darwin" THEN beforeQuit(a) ELSE a

\* app.on('window-all-closed'): app.quit() emits before-quit.
windowAllClosed(a) ==
  IF a.platform # "darwin" THEN beforeQuit(kill(a)) ELSE kill(a)

\* pythonProcess && pythonProcess.stdin.writable
stdinWritable(a) == a.pythonProcess # 0 /\ a.procs[a.pythonProcess] = "alive"

\* ipcRenderer.send('send-to-python', msg) for each message of cmds: every
\* registered listener runs and writes the message if stdin is writable.
sendToPython(a, cmds) ==
  [a EXCEPT !.sends = @ \o [i \in 1..Len(cmds) |->
                              [name |-> cmds[i].name,
                               writes |-> IF stdinWritable(a) THEN a.listeners ELSE 0]]]

\* The renderer's next state t, with what it sent handed to the main
\* process, and the main process's next state otherwise a.
Apping(t, a) ==
  /\ \A c \in DOMAIN t.conversations : t.conversations[c].children <= MaxChildren
  /\ Len(a.sends) + Len(t.sent) <= MaxSends
  /\ conversations' = t.conversations
  /\ globalState' = t.globalState
  /\ inputEl' = t.inputEl
  /\ convList' = t.convList
  /\ skillRows' = t.skillRows
  /\ app' = sendToPython(a, t.sent)
  /\ UNCHANGED <<pipe, backend, dispatch, engine, wire, view, stream, bridge, socket>>

\* A page freshly loaded, or none: the renderer's state at its start.
FreshPage ==
  [UI EXCEPT !.conversations = [c \in {} |-> createConversationState],
             !.globalState = [isConnected |-> FALSE, isBusy |-> FALSE, disabledSkills |-> {},
                              backendConvId |-> Null, activeConvId |-> Null, pendingSwitchId |-> Null],
             !.inputEl = [disabled |-> TRUE, placeholder |-> "default"],
             !.convList = {},
             !.skillRows = [n \in {} |-> [isDisabled |-> FALSE, skillDisabledClass |-> FALSE]]]

\* app.whenReady().then(createWindow); createWindow reads process.platform.
WhenReady ==
  /\ ~app.ready
  /\ \E plat \in Platforms, resolved \in BOOLEAN :
       Apping(UI, createWindow([app EXCEPT !.ready = TRUE, !.platform = plat], resolved))

\* The user closes the window, the last one: window-all-closed.
CloseWindow ==
  /\ app.mainWindow /\ ~app.quit
  /\ Apping(FreshPage, windowAllClosed([app EXCEPT !.mainWindow = FALSE]))

\* app.on('activate') with no window open.  Before the application is
\* ready no window can be created; with a window open the handler does
\* nothing.
Activate ==
  /\ app.ready /\ ~app.quit /\ ~app.mainWindow
  /\ app.platform = "darwin"
  /\ Len(app.procs) < MaxSpawns
  /\ \E resolved \in BOOLEAN : Apping(UI, createWindow(app, resolved))

\* The user quits the application.
BeforeQuit ==
  /\ app.ready /\ ~app.quit
  /\ Apping(FreshPage, beforeQuit(app))

\* system_info, the first line the subprocess writes.
AppSystemInfo ==
  /\ app.mainWindow /\ stdinWritable(app)
  /\ ~globalState.isConnected
  /\ Apping(on_system_info(UI, [conversation_id |-> "A", conversations |-> {"A"},
                                disabled_skills |-> {}, skills |-> Skills]), app)

\* The subprocess ends by itself: 'close', reported to the window as an error.
AppProcessExit ==
  /\ stdinWritable(app)
  /\ LET a == [app EXCEPT !.procs[app.pythonProcess] = "exited"]
     IN Apping(IF app.mainWindow THEN on_error(UI) ELSE UI, a)

AppSendMessage ==
  /\ app.mainWindow /\ ~inputEl.disabled
  /\ sendMessage(UI) # UI
  /\ Apping(sendMessage(UI), app)

AppClickSkill ==
  /\ app.mainWindow
  /\ \E n \in DOMAIN skillRows : skillClick(UI, n) # UI /\ Apping(skillClick(UI, n), app)

\* The turn of a message that reached the subprocess ends.
AppChatFinished ==
  /\ app.mainWindow /\ stdinWritable(app)
  /\ globalState.isBusy
  /\ app.sends # <<>> /\ app.sends[Len(app.sends)].writes > 0
  /\ Apping(on_chat_finished(UI), app)

NextApp ==
  \/ WhenReady
  \/ CloseWindow
  \/ Activate
  \/ BeforeQuit
  \/ AppSystemInfo
  \/ AppProcessExit
  \/ AppSendMessage
  \/ AppClickSkill
  \/ AppChatFinished

\* --------------------------------------------------------- socket adapter

\* web-agent.js: sockets holds the readyState of every WebSocket created,
\* "CONNECTING", "OPEN", "ERRORED" (its error event has fired, its close
\* event has not yet) or "CLOSED"; ws is a position in it.  timers counts
\* the timeouts set and not yet fired, closes the close events handled,
\* scheduled the timeouts ever set; written and dropped count what sendJSON
\* did with the messages it was given.

MaxSockets == 4
MaxSocketSends == 4

connect(k) == [k EXCEPT !.sockets = Append(@, "CONNECTING"), !.ws = Len(k.sockets) + 1]

\* The state once the script has run: connect() has been called.
SocketStart ==
  connect([sockets |-> <<>>, ws |-> 0, timers |-> 0, closes |-> 0, scheduled |-> 0,
           written |-> 0, dropped |-> 0])

\* ws.onclose: reconnectTimer = setTimeout(connect, 2000).
onclose(k) == [k EXCEPT !.closes = @ + 1, !.timers = @ + 1, !.scheduled = @ + 1]

\* An error handler that reconnects as well.
onerror_reconnects(k) == [k EXCEPT !.timers = @ + 1, !.scheduled = @ + 1]

\* ws.onerror: logs.
onerror(k) == k

sendJSON(k) ==
  IF k.ws # 0 /\ k.sockets[k.ws] = "OPEN"
  THEN [k EXCEPT !.written = @ + 1]
  ELSE [k EXCEPT !.dropped = @ + 1]

Socketing(k) ==
  socket' = k /\ UNCHANGED <<uiVars, dispatch, engine, wire, view, stream, bridge, app>>

\* The connection is established.
SocketOpens ==
  \E i \in DOMAIN socket.sockets :
    /\ socket.sockets[i] = "CONNECTING"
    /\ Socketing([socket EXCEPT !.sockets[i] = "OPEN"])

\* The connection fails or breaks: the socket's error event.
SocketErrors ==
  \E i \in DOMAIN socket.sockets :
    /\ socket.sockets[i] \in {"CONNECTING", "OPEN"}
    /\ Socketing(onerror([socket EXCEPT !.sockets[i] = "ERRORED"]))

\* The socket's close event, once per socket: after its error, or when the
\* server closes an open connection.  The last socket of the model stays.
SocketCloses ==
  \E i \in DOMAIN socket.sockets :
    /\ socket.sockets[i] \in {"OPEN", "ERRORED"}
    /\ Len(socket.sockets) < MaxSockets
    /\ Socketing(onclose([socket EXCEPT !.sockets[i] = "CLOSED"]))

\* A timeout set by onclose fires: connect().
TimerFires ==
  /\ socket.timers > 0
  /\ Len(socket.sockets) < MaxSockets
  /\ Socketing(connect([socket EXCEPT !.timers = @ - 1]))

\* A call of window.agent that sends.
SocketSend ==
  /\ socket.written + socket.dropped < MaxSocketSends
  /\ Socketing(sendJSON(socket))

NextSocket ==
  \/ SocketOpens
  \/ SocketErrors
  \/ SocketCloses
  \/ TimerFires
  \/ SocketSend

\* ------------------------------------------------------------ transports
\* window.agent as each transport exposes it: the preload script of
\* src/desktop, the preload script of part_002, and web-agent.js.  An
\* envelope is a record of strings; a call of an operation the transport does
\* not expose throws a TypeError and sends nothing.

MaxWire == 2
Undefined == "undefined"
TypeError == [type |-> "TypeError"]

Transports == {"preload", "preload_part_002", "web_agent"}
PipeTransports == {"preload", "preload_part_002"}

\* The operations each window.agent exposes to the renderer.
Exposed(t) ==
  CASE t = "preload" -> {"sendMessage", "sendConfirm", "sendCommand", "onMessage", "removeAllListeners"}
    [] t = "preload_part_002" -> {"sendMessage", "sendMessageWithFolders", "sendConfirm", "sendCommand",
                                  "selectFolder", "onMessage", "removeAllListeners"}
    [] t = "web_agent" -> {"sendMessage", "sendMessageWithFolders", "sendConfirm", "sendCommand",
                           "selectFolder", "onMessage", "removeAllListeners"}

\* JSON.stringify of an object: a property whose value is undefined is left out.
JSONstringify(obj) == [f \in {g \in DOMAIN obj : obj[g] # Undefined} |-> obj[f]]

\* args || '': undefined and the empty string both give ''.
OrEmpty(args) == IF args \in {Undefined, ""} THEN "" ELSE args

\* The object literal each operation builds; the three scripts build the same.
envelope(op, a, b) ==
  CASE op = "sendMessage" -> [type |-> "user_message", content |-> a]
    [] op = "sendMessageWithFolders" -> [type |-> "user_message", content |-> a, rag_folders |-> b]
    [] op = "sendConfirm" -> [type |-> "confirm_response", id |-> a, approved |-> b]
    [] op = "sendCommand" -> [type |-> "command", name |-> a, args |-> OrEmpty(b)]

\* What reaches the backend: ipcRenderer.send and the main process's
\* JSON.stringify(msg) for the preload scripts, sendJSON on an open socket for
\* web-agent.js.
send(t, op, a, b) == IF op \in Exposed(t) THEN JSONstringify(envelope(op, a, b)) ELSE TypeError

\* A call with these arguments, as every transport carries it.
AgentCall(op, a, b) ==
  /\ Len(wire) < MaxWire
  /\ wire' = Append(wire, [op |-> op, out |-> [t \in Transports |-> send(t, op, a, b)]])
  /\ UNCHANGED <<uiVars, dispatch, engine, view, stream, bridge, app, socket>>

Contents == {"", "hello"}
CallSendMessage == \E c \in Contents : AgentCall("sendMessage", c, Undefined)
CallSendMessageWithFolders ==
  \E c \in Contents, folders \in {"/docs", "/docs,/notes"} : AgentCall("sendMessageWithFolders", c, folders)
CallSendConfirm == \E id \in {"call_1", "call_2"}, approved \in {"true", "false"} : AgentCall("sendConfirm", id, approved)
CallSendCommand ==
  \E name \in {"run_skill", "list_conversations"}, args \in {Undefined, "", "rag"} : AgentCall("sendCommand", name, args)

NextTransport == CallSendMessage \/ CallSendMessageWithFolders \/ CallSendConfirm \/ CallSendCommand

\* ---------------------------------------------------------- specification

\* The conversations persisted by earlier sessions; "A" is the one activated at start.
Stored == {"A", "B"}

EmptyMap == [c \in {} |-> createConversationState]

InitUI ==
  /\ conversations = EmptyMap
  /\ globalState = [isConnected |-> FALSE, isBusy |-> FALSE, disabledSkills |-> {},
                    backendConvId |-> Null, activeConvId |-> Null, pendingSwitchId |-> Null]
  /\ inputEl = [disabled |-> TRUE, placeholder |-> "default"]
  /\ convList = {}
  /\ skillRows = [n \in {} |-> [isDisabled |-> FALSE, skillDisabledClass |-> FALSE]]
  /\ pipe = <<>>
  /\ \E d \in SUBSET Skills :
       backend = [convs |-> Stored, active |-> "A", used |-> Stored, turn |-> "boot",
                  queued |-> Null, disabled |-> d]
  /\ dispatch = DispatchStart
  /\ wire = <<>>
  /\ view = ViewStart
  /\ stream = StreamStart
  /\ bridge = BridgeStart
  /\ app = AppStart
  /\ socket = SocketStart

Init == InitUI /\ engine = EngineStart

\* The engine with a conversation restored from an earlier session.
InitEngine == InitUI /\ engine = Restored(StoredHistory)

\* The turn start on any stored history.
InitCompact ==
  /\ InitUI
  /\ \E len \in 0..MaxStored : \E sizes \in [1..len -> UserTokens] :
       engine = Restored([k \in 1..len |-> Msg(k, "stored", sizes[k])])

Next ==
  \/ ClickConversation
  \/ ClickDelete
  \/ ClickNewConv
  \/ SendMessage
  \/ ClickSkill
  \/ ToggleSkill
  \/ ClickSkillsReload
  \/ BackendSystemInfo
  \/ BackendStartTurn
  \/ BackendRejectSkill
  \/ BackendToggleSkill
  \/ BackendSkillsList
  \/ BackendToken
  \/ BackendAssistantDone
  \/ BackendChatFinished
  \/ BackendAbort
  \/ StderrError
  \/ BackendSwitch
  \/ BackendApplyQueued
  \/ BackendDelete
  \/ BackendNew

Spec == Init /\ [][Next]_vars

\* The dispatcher and the gate on their own, the renderer at rest.
SpecDispatch == Init /\ [][NextDispatch]_vars

\* The turn engine and the compactor.  The engine is a single-threaded loop:
\* a step that can be taken is taken.
SpecEngine == InitEngine /\ [][NextEngine]_vars /\ WF_vars(NextEngine)

\* shouldCompact and compact applied to stored histories of every shape.
SpecCompact == InitCompact /\ [][NextCompact]_vars

\* A batch of parallel-safe calls on the worker pool.
SpecPool == Init /\ [][NextPool]_vars
SpecTransport == Init /\ [][NextTransport]_vars
SpecView == Init /\ [][NextView]_vars
\* The event loop runs every handler whose event is pending.
SpecBridge == Init /\ [][NextBridge]_vars /\ WF_vars(Reading)
\* The backend goes on with a turn it has started.
SpecViewFair == Init /\ [][NextView]_vars /\ WF_vars(NextView)
SpecApp == Init /\ [][NextApp]_vars
\* A timeout that has been set fires.
SpecSocket == Init /\ [][NextSocket]_vars /\ WF_vars(TimerFires)


\* ------------------------------------------------- reading a transition

\* The pipe commands the step's handler sent.  (A backend step that takes a
\* command off the pipe runs a handler that sends none.)
SentNow == IF Len(pipe') > Len(pipe) THEN SubSeq(pipe', Len(pipe) + 1, Len(pipe')) ELSE <<>>
SendsSwitchTo(id) == \E i \in 1..Len(SentNow) : SentNow[i] = [name |-> "switch_conversation", id |-> id]
StartsTurnNow == \E i \in 1..Len(SentNow) : SentNow[i].name \in {"user_message", "run_skill"}

\* The step in which the renderer handles chat_finished, or the error that ends a turn.
IsChatFinished == backend.turn = "finishing" /\ backend'.turn = "idle"
IsAbort == backend.turn = "streaming" /\ backend'.turn = "idle"

\* The step is a click that takes the busy branch of switchConversation towards a
\* conversation other than the one being processed: only that branch sets
\* pendingSwitchId to a conversation id.
IsBusySwitch ==
  /\ globalState.isBusy
  /\ globalState'.pendingSwitchId # Null
  /\ (globalState'.pendingSwitchId # globalState.pendingSwitchId
      \/ globalState'.activeConvId # globalState.activeConvId)

\* The views of the step's two states agree but for which one is displayed.
SameContent ==
  /\ DOMAIN conversations' = DOMAIN conversations
  /\ \A c \in DOMAIN conversations :
       conversations'[c] = [conversations[c] EXCEPT !.display = conversations'[c].display]

\* A user message or skill run sent and its turn not yet reported finished.
TurnPending ==
  \/ TurnInFlight
  \/ \E i \in 1..Len(pipe) : pipe[i].name \in {"user_message", "run_skill"}


\* ------------------------------------------------------------------ C1
\* C1 as stated: while the UI is busy, a request to switch to a conversation
\* other than the one being processed sends no command and leaves the
\* backend-active id unchanged; it changes nothing but the displayed
\* conversation and the queued switch.
C1_BusySwitchOnlyDisplayAndQueue ==
  [][IsBusySwitch =>
       /\ pipe' = pipe /\ backend' = backend
       /\ globalState' = [globalState EXCEPT !.activeConvId = globalState'.pendingSwitchId,
                                             !.pendingSwitchId = globalState'.pendingSwitchId]
       /\ SameContent
       /\ convList' = convList /\ skillRows' = skillRows
       /\ inputEl' = inputEl]_vars

\* C1 amended: the same, and the input is disabled with the "can send once
\* processing has finished" placeholder.
C1_BusySwitchFrame ==
  [][IsBusySwitch =>
       /\ pipe' = pipe /\ backend' = backend
       /\ globalState'.pendingSwitchId # globalState.backendConvId
       /\ globalState' = [globalState EXCEPT !.activeConvId = globalState'.pendingSwitchId,
                                             !.pendingSwitchId = globalState'.pendingSwitchId]
       /\ SameContent
       /\ \A c \in DOMAIN conversations' :
            conversations'[c].display = IF c = globalState'.activeConvId THEN "block" ELSE "none"
       /\ convList' = convList /\ skillRows' = skillRows
       /\ inputEl' = [disabled |-> TRUE, placeholder |-> "afterDone"]]_vars

\* A switch has been queued while the turn of another conversation runs: the
\* target is displayed, the processed conversation is still backend-active.
C1_Witness ==
  /\ globalState.isBusy /\ TurnInFlight
  /\ globalState.pendingSwitchId # Null
  /\ globalState.activeConvId = globalState.pendingSwitchId
  /\ globalState.backendConvId # globalState.pendingSwitchId
  /\ inputEl = [disabled |-> TRUE, placeholder |-> "afterDone"]

\* ------------------------------------------------------------------ C2
\* C2 as stated: a queued switch is applied exactly once, in the handling of
\* the chat_finished of the in-flight turn and not before: a
\* switch_conversation for the queued target is sent by no other step, and
\* the chat_finished step sends exactly one.
C2_QueuedSwitchAtChatFinishedOnly ==
  [][globalState.pendingSwitchId # Null =>
       /\ SendsSwitchTo(globalState.pendingSwitchId) => IsChatFinished
       /\ IsChatFinished =>
            /\ SentNow = <<[name |-> "switch_conversation", id |-> globalState.pendingSwitchId]>>
            /\ globalState'.pendingSwitchId = Null]_vars

\* ------------------------------------------------------------------ C3
\* C3 as stated: once a newer switch request was made, no switch_conversation
\* for the older queued target is sent.  A queued target other than the
\* displayed conversation is an older one: every event that displays a
\* conversation clears the queue, so only a later click displays another.
C3_OlderTargetNeverApplied ==
  [][(globalState.pendingSwitchId # Null
      /\ globalState.activeConvId # globalState.pendingSwitchId
      /\ IsChatFinished)
     => ~SendsSwitchTo(globalState.pendingSwitchId)]_vars

\* ------------------------------------------------------------------ C4
\* C4 as stated: when the turn ends with an error event while a switch is
\* queued, the queued switch is applied in that step.
C4_QueuedSwitchAppliedOnAbort ==
  [][(IsAbort /\ globalState.pendingSwitchId # Null)
     => (SendsSwitchTo(globalState.pendingSwitchId) /\ globalState'.pendingSwitchId = Null)]_vars

\* ------------------------------------------------------------------ C5
\* C5 as stated: with B displayed and queued behind the turn of A, the input is
\* disabled in every state in which A's turn has not finished (its
\* chat_finished not yet handled).
C5_InputDisabledUntilTurnFinished ==
  (globalState.pendingSwitchId # Null /\ TurnInFlight
   /\ globalState.activeConvId = globalState.pendingSwitchId
   /\ backend.active = globalState.backendConvId)
  => inputEl.disabled

\* ------------------------------------------------------------------ C6
\* C6 as stated: no user_message or run_skill is sent while an earlier one is
\* in flight, its chat_finished not yet received.
C6_OneTurnInFlight ==
  [][StartsTurnNow => ~TurnPending]_vars

\* ------------------------------------------------------------------ C7
\* C7 as stated: a click on the delete button of the conversation that is
\* processing a turn sends no delete_conversation, reports a
\* conversation-busy error, and leaves the conversation in the registry.
C7_DeleteOfBusyRefusedWithError ==
  \A id \in convList :
    (TurnInFlight /\ id = backend.active) =>
      LET t == deleteClick(UI, id) IN
      /\ \A i \in 1..Len(t.sent) : t.sent[i].name # "delete_conversation"
      /\ \E x \in t.shown : x.kind = "error"
      /\ DOMAIN t.conversations = DOMAIN conversations

\* ------------------------------------------------------------------ C8
\* C8 as stated: the backend-active conversation id is null or a key of the
\* conversation map, in every reachable state.
C8_BackendConvInMap ==
  globalState.backendConvId = Null \/ globalState.backendConvId \in DOMAIN conversations

\* ------------------------------------------------------------------ C9
\* What a click on id does when no turn is in flight, neither for the renderer
\* nor in the backend, and the click is no no-op.
SwitchNow(id) == switchConversation(UI, id)
IsFullSwitch(id) ==
  /\ ~globalState.isBusy /\ backend.turn = "idle"
  /\ ~(id = globalState.activeConvId /\ id = globalState.backendConvId)

\* C9 as stated: when no turn is in flight, a switch sends one
\* switch_conversation carrying the target id and the snapshot of the
\* conversation that was backend-active before the switch, never the target's
\* snapshot, and the backend-active id becomes the target.
C9_SwitchCarriesLeftSnapshotNeverTargets ==
  \A id \in convList :
    IsFullSwitch(id) =>
      /\ SwitchNow(id).sent = <<Cmd("switch_conversation", id, innerHTML(UI, globalState.backendConvId))>>
      /\ SwitchNow(id).sent[1].ui_html.conv # id
      /\ SwitchNow(id).globalState.backendConvId = id

\* ------------------------------------------------------------------ C10
\* C10: rejecting the confirmation of a mutating tool call never invokes the
\* executor.  For every gated call, in every state: once rejected, its
\* executor's call count is 0 and stays 0, and the call is done with status
\* cancelled, whatever confirmation responses follow; an approved call that is
\* done has a call count of exactly 1; and no call is ever executed unless it
\* was approved.
C10_RejectNeverInvokesExecutor ==
  \A i \in CallIds :
    Gated(i) =>
      /\ dispatch.calls[i].decision = "rejected" =>
           /\ dispatch.calls[i].execCount = 0
           /\ dispatch.calls[i].st = "done"
           /\ dispatch.calls[i].result = "cancelled"
      /\ (dispatch.calls[i].decision = "approved" /\ dispatch.calls[i].st = "done"
          /\ dispatch.calls[i].result # "cancelled") => dispatch.calls[i].execCount = 1
      /\ dispatch.calls[i].execCount > 0 => dispatch.calls[i].decision = "approved"
      /\ dispatch.calls[i].execCount <= 1

\* One mutating call was rejected and cancelled, a second confirmation response
\* followed it, and another mutating call was approved by the user, executed
\* once and returned ok.
C10_Witness ==
  /\ ~dispatch.autoConfirm /\ dispatch.anomalies > 0
  /\ \E i, j \in CallIds :
       /\ Gated(i) /\ dispatch.calls[i].decision = "rejected" /\ dispatch.calls[i].result = "cancelled"
       /\ Gated(j) /\ dispatch.calls[j].decision = "approved" /\ dispatch.calls[j].st = "done"
       /\ dispatch.calls[j].execCount = 1 /\ dispatch.calls[j].result = "ok"

\* ------------------------------------------------------------------ C11
\* The step logs a confirmation response for call i as an anomaly.
IsAnomalyFor(i) == dispatch'.anomalyLog = Append(dispatch.anomalyLog, [id |-> i, decision |-> dispatch.calls[i].decision])

\* C11: resolving a confirmation id a second time is idempotent.  A response
\* for a call whose confirmation the user already resolved, whatever it says,
\* changes no call (neither its decision, its state, its call count nor its
\* result) and not the pending map; it only adds one anomaly to the log.  And
\* a decision, once taken, is never changed by any step.
C11_SecondResolveIsNoOp ==
  [][\A i \in CallIds :
       /\ (dispatch.calls[i].decision \in {"approved", "rejected"} /\ IsAnomalyFor(i)) =>
            /\ dispatch'.calls = dispatch.calls
            /\ dispatch'.pendingMap = dispatch.pendingMap
            /\ dispatch'.anomalies = dispatch.anomalies + 1
            /\ dispatch'.aborted = dispatch.aborted /\ dispatch'.autoConfirm = dispatch.autoConfirm
       /\ dispatch.calls[i].decision # "none" => dispatch'.calls[i].decision = dispatch.calls[i].decision]_vars

\* A call was rejected by the user, a second response for its id was logged as
\* an anomaly, and the call is still cancelled and never executed.
C11_Witness ==
  /\ ~dispatch.autoConfirm
  /\ \E k \in 1..Len(dispatch.anomalyLog) :
       LET e == dispatch.anomalyLog[k] IN
       /\ e.decision = "rejected"
       /\ dispatch.calls[e.id].decision = "rejected"
       /\ dispatch.calls[e.id].result = "cancelled" /\ dispatch.calls[e.id].execCount = 0
       /\ e.id \notin dispatch.pendingMap

\* ------------------------------------------------------------------ C12
\* How a gated call that is done has ended.
ApprovedExecuted(c) == c.decision = "approved" /\ c.execCount = 1 /\ c.result \in {"ok", "error"}
RejectedCancelled(c) == c.decision = "rejected" /\ c.execCount = 0 /\ c.result = "cancelled"
AbortedCancelled(c) == c.decision # "rejected" /\ c.execCount = 0 /\ c.result = "cancelled" /\ dispatch.aborted
Endings(c) == {e \in {"approved_executed", "rejected_cancelled", "aborted_cancelled"} :
                 \/ e = "approved_executed" /\ ApprovedExecuted(c)
                 \/ e = "rejected_cancelled" /\ RejectedCancelled(c)
                 \/ e = "aborted_cancelled" /\ AbortedCancelled(c)}

\* What C12 asks of a state: after the abort no confirmation is pending, a
\* call whose confirmation was pending at the abort is done with cancelled and
\* was never executed, and every gated call that is done has exactly one of
\* the three endings.
AbortDiscardsPending ==
  /\ dispatch.aborted => dispatch.pendingMap = {}
  /\ \A i \in CallIds :
       /\ dispatch.calls[i].decision = "aborted" =>
            /\ dispatch.aborted /\ dispatch.calls[i].st = "done"
            /\ dispatch.calls[i].result = "cancelled" /\ dispatch.calls[i].execCount = 0
       /\ (Gated(i) /\ dispatch.calls[i].st = "done") => Cardinality(Endings(dispatch.calls[i])) = 1

\* C12: an abort before resolution discards the pending confirmation and the
\* blocked call fails with cancelled; every gated call ends in exactly one of
\* approved-and-executed, rejected-cancelled, aborted-cancelled; and a
\* confirmation response that arrives after the abort changes no call and
\* starts no execution: it is only logged.
C12_AbortDiscardsAndResolveCannotDoubleApply ==
  [][/\ AbortDiscardsPending'
     /\ (dispatch.aborted /\ dispatch'.anomalyLog # dispatch.anomalyLog) =>
          /\ dispatch'.calls = dispatch.calls
          /\ dispatch'.pendingMap = {}
     /\ dispatch.aborted =>
          \A i \in CallIds : dispatch'.calls[i].execCount = dispatch.calls[i].execCount]_vars

\* The turn was aborted while a confirmation was pending, the call failed with
\* cancelled, and a response for its id arrived afterwards.
C12_Witness ==
  /\ dispatch.aborted
  /\ \E k \in 1..Len(dispatch.anomalyLog) :
       LET e == dispatch.anomalyLog[k] IN
       /\ e.decision = "aborted"
       /\ Gated(e.id)
       /\ dispatch.calls[e.id].decision = "aborted"
       /\ dispatch.calls[e.id].result = "cancelled" /\ dispatch.calls[e.id].execCount = 0

\* ------------------------------------------------------------------ C13
Exclusive(i) == Registered(i) /\ ~Registry[dispatch.calls[i].tool].parallelSafe

C14_AtMostWorkerCapRunning ==
  Cardinality(Running) <= WorkerCap

\* The cap binds: four calls are executing and a fifth call of the batch (and
\* a sixth) is waiting for a worker.
C14_Witness ==
  /\ Cardinality(Running) = WorkerCap
  /\ Cardinality({i \in CallIds : dispatch.calls[i].st = "proposed"}) >= 2

\* ------------------------------------------------------------------ C15
\* C15: the tool-result messages of a parallel-safe batch are in the
\* conversation history in dispatch order, whatever the order in which the
\* calls completed: the ids in the history increase, no call has two results,
\* each message carries the status its call returned, and the result of a
\* call is appended only after the results of all calls dispatched before it.
C15_ResultsInDispatchOrder ==
  /\ \A k, l \in 1..Len(dispatch.history) : k < l => dispatch.history[k].id < dispatch.history[l].id
  /\ \A k \in 1..Len(dispatch.history) :
       /\ dispatch.history[k].id \in CallIds
       /\ dispatch.calls[dispatch.history[k].id].st = "done"
       /\ dispatch.history[k].status = dispatch.calls[dispatch.history[k].id].result
       /\ \A j \in 1..(dispatch.history[k].id - 1) : \E m \in 1..(k - 1) : dispatch.history[m].id = j

\* Calls completed out of dispatch order: the first result is in the history,
\* a later call of the batch has completed while an earlier one is still
\* executing, and the later result is being held back.
C15_Witness ==
  /\ Len(dispatch.history) >= 1
  /\ \E i, j \in CallIds :
       /\ i < j /\ dispatch.calls[i].st = "running" /\ dispatch.calls[j].st = "done"
       /\ dispatch.calls[i].tool = "read_file" /\ dispatch.calls[j].tool = "read_file"
       /\ \A k \in 1..Len(dispatch.history) : dispatch.history[k].id < i

\* ------------------------------------------------------------------ C16
InTurn == engine.phase \in {"Starting", "Streaming", "ToolDispatch"}
LastMsg(h) == h[Len(h)]

\* C16: every turn terminates.  A turn never performs more than MaxRounds
\* tool-call rounds: ToolDispatch is entered only below the bound, and each
\* entry counts one round.  A proposal of tool calls at the bound forces Done
\* and appends the truncation notice as a system message.  And a turn that has
\* started always reaches Done or Aborted.
C16_EveryTurnTerminates ==
  /\ [](engine.rounds <= MaxRounds)
  /\ [][/\ (engine.phase # "ToolDispatch" /\ engine'.phase = "ToolDispatch") =>
             (engine.rounds < MaxRounds /\ engine'.rounds = engine.rounds + 1)
        /\ (~engine.truncated /\ engine'.truncated) =>
             /\ engine.phase = "Streaming" /\ engine.rounds = MaxRounds
             /\ engine'.phase = "Done"
             /\ engine'.history = Append(engine.history, LastMsg(engine'.history))
             /\ LastMsg(engine'.history).role = "system"]_vars
  /\ InTurn ~> engine.phase \in {"Done", "Aborted"}

\* The model proposed tool calls in every step: after MaxRounds rounds the
\* turn was forced to Done, the truncation notice the last message.
C16_Witness ==
  /\ engine.phase = "Done" /\ engine.truncated /\ engine.rounds = MaxRounds
  /\ LastMsg(engine.history).role = "system"
  /\ Len(SelectSeq(engine.history, LAMBDA m : m.role = "tool")) >= MaxRounds

\* ------------------------------------------------------------------ C17
\* The step runs the compactor (whether the summarization succeeds or fails),
\* or starts the turn without having run it.
CompactionTriggered == ~engine.compactTried /\ engine'.compactTried
StartsUncompacted == engine.phase = "Starting" /\ engine'.phase = "Streaming" /\ ~engine.compactTried

Compacted == ~engine.compactTried /\ engine'.out = <<"compacting", "compact_done">>
\* The last n messages of h.
Suffix(h, n) == SubSeq(h, Len(h) - n + 1, Len(h))
\* The new history ends with the most recent K messages of the old one (with
\* all of them, when there were K or fewer), verbatim and in order.
RecentPreserved ==
  /\ Len(engine'.history) >= Len(Recent(engine.history))
  /\ Suffix(engine'.history, Len(Recent(engine.history))) = Recent(engine.history)

Emits(e, o) == \E k \in 1..Len(o) : o[k] = e
\* The step emits the first token event of a turn.
FirstToken == ~engine.tokenSeen /\ engine'.tokenSeen

C20_DisabledSkillNeverRun ==
  [][\A i \in 1..Len(SentNow) :
       SentNow[i].name = "run_skill" => SentNow[i].id \notin globalState.disabledSkills]_vars

\* ------------------------------------------------------------------ C21
\* C21 as stated: for every operation the renderer calls (sendMessage,
\* sendMessageWithFolders, sendConfirm, sendCommand) each pipe transport
\* exposes the operation and, for the same arguments, delivers the envelope
\* the socket transport delivers.
C21_TransportsInterchangeable ==
  \A k \in 1..Len(wire) : \A t \in PipeTransports :
     /\ wire[k].out[t] # TypeError
     /\ wire[k].out["web_agent"] # TypeError
     /\ wire[k].out[t] = wire[k].out["web_agent"]

\* ------------------------------------------------------------------ C22
\* C22 as stated: every tool_result updates the tool card created by its own
\* tool_call: a card that shows a result shows the result of the call whose
\* arguments it was created with.
C22_ResultOnItsOwnCard ==
  \A j \in DOMAIN view.children :
     (view.children[j].kind = "tool" /\ view.children[j].result # 0)
       => view.children[j].result = view.children[j].args

\* ------------------------------------------------------------------ C23
\* The step delivers an event of the turn's stream to the renderer.
Delivered == stream'.events = stream.events + 1

\* C23 as stated: delivering the event just delivered a second time leaves
\* the view, and the commands the renderer has sent, as they are after the
\* first delivery.
C23_DuplicateDeliveryIsNoOp ==
  [][Delivered => onMessage(view', stream'.last) = view']_vars

\* ------------------------------------------------------------------ C24
\* C24 as stated, for the anomalies of the session: while a turn is in flight
\* a delete aimed at the conversation processing it, and a switch to another
\* conversation, are answered with an error (shown at once, or by the backend
\* on the command sent), are not silently ignored, and leave the session
\* state (the conversation map, the queued switch) unchanged.
C24_BusyAnomalyRejectedWithError ==
  \A id \in convList :
    (TurnInFlight /\ globalState.isBusy /\ globalState.backendConvId = backend.active) =>
      /\ id = backend.active =>
           LET t == deleteClick(UI, id) IN
           /\ (\E x \in t.shown : x.kind = "error")
                \/ (\E i \in 1..Len(t.sent) : t.sent[i].name = "delete_conversation")
           /\ DOMAIN t.conversations = DOMAIN conversations
      /\ id # globalState.activeConvId =>
           LET t == switchConversation(UI, id) IN
           /\ (\E x \in t.shown : x.kind = "error")
                \/ (\E i \in 1..Len(t.sent) : t.sent[i].name = "switch_conversation")
           /\ t.globalState.pendingSwitchId = globalState.pendingSwitchId

\* ------------------------------------------------------------------ C25
Children(v) == {v.children[i] : i \in DOMAIN v.children}
DeliveredKind(kinds) == Delivered /\ stream'.last.type \in kinds

\* C25: within one step no token is delivered after a tool_call of the same
\* model response (a token is emitted only while no call of the step's batch
\* has been announced); a tool_call or a confirm_request closes the current
\* assistant bubble, leaving its text as it was; and a later token starts a
\* new bubble when none is open and changes no bubble but the open one.
C25_TokensBeforeToolCallsAndNeverIntoClosedBubble ==
  [][/\ DeliveredKind({"token"}) =>
          /\ Batch = {}
          /\ \A e \in Children(view) :
               (e.kind = "assistant" /\ e.el # view.currentAssistantEl) => e \in Children(view')
          /\ view.currentAssistantEl = 0 =>
               /\ view'.created = view.created + 1
               /\ view'.currentAssistantEl = view'.created
     /\ DeliveredKind({"tool_call", "confirm_request"}) =>
          /\ view'.currentAssistantEl = 0
          /\ \A e \in Children(view) :
               e.kind = "assistant" => [e EXCEPT !.cls = ""] \in Children(view')]_vars

\* A bubble with text was closed by a tool_call, and after the step's result
\* a token has started a second bubble.
C25_Witness ==
  /\ stream.last.type = "token"
  /\ \E a, c, b \in DOMAIN view.children :
       /\ a < c /\ c < b
       /\ view.children[a].kind = "assistant" /\ view.children[a].raw # <<>> /\ view.children[a].cls = ""
       /\ view.children[c].kind = "tool"
       /\ view.children[b].kind = "assistant" /\ view.children[b].el = view.currentAssistantEl
       /\ Len(view.children[b].raw) = 1

\* ------------------------------------------------------------------ C26
\* The renderer has been sent the error of the 'close' handler.
TerminalErrorSent == \E k \in 1..Len(bridge.delivered) : bridge.delivered[k] = "error_exit"

\* C26: when the subprocess dies the renderer is sent the error of the
\* 'close' handler, and nothing is sent to the renderer after it.
C26_TerminalErrorThenSilence ==
  /\ [][TerminalErrorSent => bridge'.delivered = bridge.delivered]_vars
  /\ (bridge.proc = "exited") ~> TerminalErrorSent

\* The process died with a line and an error text unread; both were forwarded,
\* and the terminal error after them.
C26_Witness ==
  /\ bridge.proc = "closed"
  /\ Len(bridge.delivered) >= 3
  /\ bridge.delivered[Len(bridge.delivered)] = "error_exit"
  /\ \E k \in 1..Len(bridge.delivered) : bridge.delivered[k] = "event"
  /\ \E k \in 1..Len(bridge.delivered) : bridge.delivered[k] = "error_stderr"

\* ------------------------------------------------------------------ C27
\* C27: in every reachable state in which the displayed conversation is not
\* the renderer's backend conversation, sendMessage sends nothing and changes
\* nothing; and no step sends user_message from such a state.
C27_NoSendFromOtherConversation ==
  /\ [](globalState.activeConvId # globalState.backendConvId => sendMessage(UI) = UI)
  /\ [][(\E i \in 1..Len(SentNow) : SentNow[i].name = "user_message")
          => globalState.activeConvId = globalState.backendConvId]_vars

\* Another conversation than the backend's is displayed while the renderer is
\* connected, not busy, and the input box is enabled: only the comparison of
\* the two ids keeps sendMessage from sending.
C27_Witness ==
  /\ globalState.activeConvId # globalState.backendConvId
  /\ globalState.isConnected /\ ~globalState.isBusy /\ ~inputEl.disabled

\* ------------------------------------------------------------------ C28
\* A click, while busy, on the conversation being processed, another one
\* being displayed.
IsSwitchBack ==
  /\ globalState.isBusy /\ backend' = backend
  /\ globalState.activeConvId # globalState.backendConvId
  /\ globalState'.activeConvId = globalState.backendConvId

\* C28: switching back, while busy, to the conversation being processed
\* empties the queued target and sends nothing; and the chat_finished of a
\* turn handled with no target queued sends no switch_conversation.
C28_SwitchBackCancelsQueuedSwitch ==
  [][/\ IsSwitchBack => (globalState'.pendingSwitchId = Null /\ SentNow = <<>>)
     /\ (IsChatFinished /\ globalState.pendingSwitchId = Null)
          => \A i \in 1..Len(SentNow) : SentNow[i].name # "switch_conversation"]_vars

\* The user has switched back while busy: the conversation being processed
\* is displayed with the "processing" placeholder and nothing is queued.
C28_Witness ==
  /\ globalState.isBusy /\ TurnInFlight
  /\ globalState.pendingSwitchId = Null
  /\ globalState.activeConvId = globalState.backendConvId
  /\ inputEl = [disabled |-> TRUE, placeholder |-> "processing"]

\* ------------------------------------------------------------------ C29
\* The names of the commands a handler sent, in order.
Names(sent) == [i \in 1..Len(sent) |-> sent[i].name]

\* C29 as stated: whenever the chat_finished of a turn is about to be
\* handled, the handler sends save_conversation_html with the snapshot of the
\* conversation whose turn has finished first, then switch_conversation for
\* the queued target if one is queued, then list_conversations, and nothing
\* else.
C29_ChatFinishedCommandOrder ==
  backend.turn = "finishing" =>
    LET t == on_chat_finished(UI) IN
    /\ Names(t.sent) \in {<<"save_conversation_html", "list_conversations">>,
                          <<"save_conversation_html", "switch_conversation", "list_conversations">>}
    /\ t.sent[1].ui_html = innerHTML(UI, backend.active)
    /\ Len(t.sent) = 3 <=> globalState.pendingSwitchId # Null
    /\ Len(t.sent) = 3 => t.sent[2].id = globalState.pendingSwitchId

\* ------------------------------------------------------------------ C30
\* The step is the handling of an event of the turn in flight: no command is
\* sent or taken, and the turn exists before the step.
IsTurnEvent == TurnInFlight /\ pipe' = pipe /\ (backend' # backend \/ ~SameContent)

\* C30 as stated: no event of the turn in flight is rendered into the view of
\* a conversation other than the one the turn was started in: handling it
\* leaves every other conversation's view as it is.
C30_TurnOutputOnlyInItsConversation ==
  [][IsTurnEvent =>
       \A c \in DOMAIN conversations :
          c # backend.active =>
            (c \in DOMAIN conversations'
               => /\ conversations'[c].children = conversations[c].children
                  /\ conversations'[c].currentAssistantEl = conversations[c].currentAssistantEl)]_vars

\* ------------------------------------------------------------------ C31
\* C31: for each confirm_request received, the view sends at most one
\* confirm_response with that id, whichever button is clicked and however
\* often: a card that has been answered sends nothing more.
Responses(i) ==
  {n \in DOMAIN view.sent : view.sent[n].name = "confirm_response" /\ view.sent[n].arg = i}

ConfirmCards(i) ==
  {j \in DOMAIN view.children : view.children[j].kind = "confirm" /\ view.children[j].args = i}

C31_AtMostOneResponsePerRequest ==
  \A i \in 1..MaxStreamBatch :
    /\ Cardinality(Responses(i)) <= Cardinality(ConfirmCards(i))
    /\ Cardinality(Responses(i)) <= 1

C31_Witness ==
  \E i \in 1..MaxStreamBatch :
    /\ Cardinality(Responses(i)) = 1
    /\ \E j \in ConfirmCards(i) : view.children[j].cls = "cancelled"
    /\ stream.phase = "Finished"

\* ------------------------------------------------------------------ C32
\* C32: each message the renderer sends is written to the subprocess's
\* stdin exactly once, after any sequence of window creation, closing of
\* all windows and re-activation.
C32_EachMessageWrittenOnce ==
  \A i \in DOMAIN app.sends : app.sends[i].writes = 1

\* ------------------------------------------------------------------ C33
\* C33: at most one subprocess is alive (spawned and not killed) at any
\* time, after any sequence of window creation, window-all-closed, activate
\* and before-quit events.
Alive == {p \in DOMAIN app.procs : app.procs[p] = "alive"}

C33_AtMostOneSubprocess == Cardinality(Alive) <= 1

C33_Witness ==
  /\ Len(app.procs) = 2
  /\ app.procs[1] = "killed"
  /\ app.procs[2] = "alive"
  /\ app.pythonProcess = 2

\* ------------------------------------------------------------------ C34
\* C34: the renderer is never left busy for a message that was not
\* delivered: whenever it is busy, the user_message or run_skill that made
\* it busy was written to a live subprocess.
LastTurnMessage ==
  LET turns == SelectSeq(app.sends, LAMBDA m : m.name \in {"user_message", "run_skill"})
  IN turns[Len(turns)]

C34_NeverBusyForDroppedMessage ==
  globalState.isBusy => LastTurnMessage.writes > 0

\* ------------------------------------------------------------------ C35
\* C35: every compacting event is eventually followed by the removal of
\* the compacting spinner, also when compaction fails and the failure is
\* reported as a status event while the turn proceeds (or the turn has
\* used up the events the model gives it).
C35_SpinnerEventuallyRemoved ==
  (stream.last.type = "compacting") ~> (~view.overlay \/ stream.events = MaxEvents)

\* ------------------------------------------------------------------ C36
\* C36: a queued switch target always names an existing conversation: a
\* non-empty pendingSwitchId is an id that has not been deleted, and the
\* switch_conversation sent at the end of a turn never targets a deleted
\* conversation.
C36_QueuedSwitchTargetExists ==
  /\ globalState.pendingSwitchId # Null => globalState.pendingSwitchId \in backend.convs
  /\ \A i \in DOMAIN pipe : pipe[i].name = "switch_conversation" => pipe[i].id \in backend.convs

\* ------------------------------------------------------------------ C37
\* C37: at every moment at most one conversation view is visible, and a
\* visible view is the view of activeConvId; ensureConversation never makes
\* the view it creates visible and never replaces the state an id already has.
Visible == {id \in DOMAIN conversations : conversations[id].display = "block"}

C37_OneVisibleViewAndEnsureIsInert ==
  /\ Cardinality(Visible) <= 1
  /\ Visible \subseteq {globalState.activeConvId}
  /\ \A convId \in Convs :
       LET t == ensureConversation(UI, convId)
       IN /\ convId \in DOMAIN conversations => t = UI
          /\ convId \notin DOMAIN conversations =>
               /\ DOMAIN t.conversations = DOMAIN conversations \cup {convId}
               /\ t.conversations[convId].display = "none"
               /\ \A id \in DOMAIN conversations : t.conversations[id] = conversations[id]
               /\ t.globalState = globalState

C37_Witness ==
  /\ Cardinality(DOMAIN conversations) >= 2
  /\ Cardinality(Visible) = 1
  /\ \E id \in DOMAIN conversations \ Visible : conversations[id].children > 0
  /\ \E id \in Convs : id \notin DOMAIN conversations

\* ------------------------------------------------------------------ C38
\* The step in which the renderer handles conversation_switched for id: the
\* answer to a switch_conversation taken off the pipe outside a turn, or
\* the queued switch applied after the turn.
IsSwitched(id) ==
  /\ id \in backend.convs /\ backend'.active = id
  /\ \/ /\ pipe # <<>> /\ Head(pipe) = [name |-> "switch_conversation", id |-> id]
        /\ ~TurnInFlight /\ pipe' = Tail(pipe)
     \/ /\ backend.turn = "idle" /\ backend.queued = id /\ backend'.queued = Null

\* C38: a conversation_switched event restores the saved snapshot only
\* into an empty view: the content of a target view that has content is
\* the same after the event.
C38_SnapshotOnlyIntoEmptyView ==
  [][\A id \in Convs :
       (IsSwitched(id) /\ id \in DOMAIN conversations /\ conversations[id].children > 0)
         => /\ id \in DOMAIN conversations'
            /\ conversations'[id].children = conversations[id].children
            /\ conversations'[id].currentAssistantEl = conversations[id].currentAssistantEl]_vars

\* The backend is about to answer a switch to a conversation whose view
\* holds a user message and an assistant bubble; the stored snapshot, if
\* any, holds one element.
C38_Witness ==
  /\ pipe # <<>> /\ Head(pipe).name = "switch_conversation"
  /\ ~TurnInFlight /\ backend.queued = Null
  /\ Head(pipe).id \in backend.convs \cap DOMAIN conversations
  /\ conversations[Head(pipe).id].children = 2

\* ------------------------------------------------------------------ C39
\* C39: the socket adapter has at most one socket open or connecting at
\* any time, sets exactly one reconnect timeout per close, and after every
\* close a new connection attempt eventually follows.
Live == {i \in DOMAIN socket.sockets : socket.sockets[i] \in {"CONNECTING", "OPEN"}}

C39_OneSocketOneReconnectPerClose ==
  /\ [](/\ Cardinality(Live) <= 1
        /\ socket.scheduled = socket.closes
        /\ socket.timers <= 1)
  /\ \A n \in 1..(MaxSockets - 1) : (socket.closes = n) ~> (Len(socket.sockets) > n)

C39_Witness ==
  /\ socket.closes = 2 /\ Len(socket.sockets) = 3
  /\ socket.sockets = <<"CLOSED", "CLOSED", "OPEN">>
  /\ socket.dropped > 0 /\ socket.written > 0

=============================================================================
